---- MODULE Spec2Model ----
(***************************************************************************)
(* Model of the tracelogging_macros crate: the write_event! schema parser  *)
(* (EventInfo::parse, parse_event_options, push_field and the sticky limit *)
(* counters) and the metadata layout compiler (EventGenerator::generate).  *)
(*                                                                         *)
(* The macro input is a token stream.  A token is a record                 *)
(*   [t, s, n, c]:  t = kind, s = text, n = number, c = group content.     *)
(* A string literal is the character s repeated n times, so that names of  *)
(* tens of thousands of bytes stay small in the model; an expression is    *)
(* opaque to the macro and is carried as its token.                        *)
(***************************************************************************)
EXTENDS Integers, Sequences, FiniteSets, TLC

\* ------------------------------------------------------------------ limits
METADATA_BYTES_MAX == 65535
STRUCT_FIELDS_MAX == 127
DATA_DESC_MAX == 128
FIELDS_MAX == 128
\* u8::MAX, the ceiling of logical_fields_added.saturating_add(1)
U8_MAX == 255

\* ------------------------------------------------------------ model bounds
\* longest list of options in the enumerated small event descriptions
MaxOpts == 3
\* number of fields in the long event descriptions (beyond every field limit)
MaxFields == 130

\* ------------------------------------------------------------------ tokens
Id(s) == [t |-> "ident", s |-> s, n |-> 0, c |-> <<>>]
Comma == [t |-> "comma", s |-> ",", n |-> 0, c |-> <<>>]
Paren(c) == [t |-> "paren", s |-> "", n |-> 0, c |-> c]
Brace(c) == [t |-> "brace", s |-> "", n |-> 0, c |-> c]
\* string literal: the character ch, n times
Lit(ch, n) == [t |-> "lit", s |-> ch, n |-> n, c |-> <<>>]
\* integer literal expression (its text starts with an ASCII digit)
Num(n) == [t |-> "int", s |-> "", n |-> n, c |-> <<>>]
\* any other expression, e.g. &value
Ex(s) == [t |-> "expr", s |-> s, n |-> 0, c |-> <<>>]
\* the keyword struct
KwStruct == [t |-> "struct", s |-> "struct", n |-> 0, c |-> <<>>]

\* ------------------------------------------------------ field_option.rs
\* Number of data descriptors a strategy needs.
data_count(strategy) ==
    CASE strategy \in {"Scalar", "SystemTime", "Time32", "Time64", "Sid",
                       "RawData", "RawField", "RawFieldSlice"} -> 1
      [] strategy \in {"CStr", "Counted", "Slice"} -> 2
      [] OTHER -> 0

has_metadata(strategy) == strategy # "RawData"

is_slice(strategy) ==
    strategy \in {"Slice", "RawFieldSlice", "RawMetaSlice", "RawStructSlice"}

\* ------------------------------------------------------------- enums.rs
OutTypeInt(name) ==
    CASE name = "Default" -> 0
      [] name = "NoPrint" -> 1
      [] name = "String" -> 2
      [] name = "Boolean" -> 3
      [] name = "Hex" -> 4
      [] name = "Pid" -> 5
      [] name = "Tid" -> 6
      [] name = "Port" -> 7
      [] name = "IPv4" -> 8
      [] name = "IPv6" -> 9
      [] name = "SocketAddress" -> 10
      [] name = "Xml" -> 11
      [] name = "Json" -> 12
      [] name = "Win32Error" -> 13
      [] name = "NtStatus" -> 14
      [] name = "HResult" -> 15
      [] name = "DateTime" -> 16
      [] name = "Signed" -> 17
      [] name = "Unsigned" -> 18
      [] name = "DateTimeCultureInsensitive" -> 33
      [] name = "Utf8" -> 35
      [] name = "Pkcs7WithTypeInfo" -> 36
      [] name = "CodePointer" -> 37
      [] name = "DateTimeUtc" -> 38

\* OutType::TypeMask
TypeMask == 127

\* x & OutType::TypeMask on a u8
AndTypeMask(x) == x % (TypeMask + 1)

\* ------------------------------------------------------ field_options.rs
Opt(name, value_type, intype, outtype, strategy, value_array_count) ==
    [option_name |-> name, value_type |-> value_type, intype |-> intype,
     outtype |-> outtype, strategy |-> strategy,
     value_array_count |-> value_array_count]

FIELD_OPTIONS == <<
    Opt("binary", "u8", "Binary", "Default", "Counted", 0),
    Opt("binaryc", "u8", "BinaryC", "Default", "Counted", 0),
    Opt("bool32", "i32", "Bool32", "Default", "Scalar", 0),
    Opt("bool32_slice", "i32", "Bool32", "Default", "Slice", 0),
    Opt("bool8", "bool", "U8", "Boolean", "Scalar", 0),
    Opt("bool8_slice", "bool", "U8", "Boolean", "Slice", 0),
    Opt("char16", "u16", "U16", "String", "Scalar", 0),
    Opt("char16_slice", "u16", "U16", "String", "Slice", 0),
    Opt("char8_cp1252", "u8", "U8", "String", "Scalar", 0),
    Opt("char8_cp1252_slice", "u8", "U8", "String", "Slice", 0),
    Opt("codepointer", "usize", "HexSize", "CodePointer", "Scalar", 0),
    Opt("codepointer_slice", "usize", "HexSize", "CodePointer", "Slice", 0),
    Opt("cstr16", "u16", "CStr16", "Default", "CStr", 0),
    Opt("cstr16_json", "u16", "CStr16", "Json", "CStr", 0),
    Opt("cstr16_xml", "u16", "CStr16", "Xml", "CStr", 0),
    Opt("cstr8", "u8", "CStr8", "Utf8", "CStr", 0),
    Opt("cstr8_cp1252", "u8", "CStr8", "Default", "CStr", 0),
    Opt("cstr8_json", "u8", "CStr8", "Json", "CStr", 0),
    Opt("cstr8_xml", "u8", "CStr8", "Xml", "CStr", 0),
    Opt("errno", "i32", "I32", "Default", "Scalar", 0),
    Opt("errno_slice", "i32", "I32", "Default", "Slice", 0),
    Opt("f32", "f32", "F32", "Default", "Scalar", 0),
    Opt("f32_slice", "f32", "F32", "Default", "Slice", 0),
    Opt("f64", "f64", "F64", "Default", "Scalar", 0),
    Opt("f64_slice", "f64", "F64", "Default", "Slice", 0),
    Opt("guid", "Guid", "Guid", "Default", "Scalar", 0),
    Opt("guid_slice", "Guid", "Guid", "Default", "Slice", 0),
    Opt("hresult", "i32", "I32", "HResult", "Scalar", 0),
    Opt("hresult_slice", "i32", "I32", "HResult", "Slice", 0),
    Opt("i16", "i16", "I16", "Default", "Scalar", 0),
    Opt("i16_hex", "i16", "U16", "Hex", "Scalar", 0),
    Opt("i16_hex_slice", "i16", "U16", "Hex", "Slice", 0),
    Opt("i16_slice", "i16", "I16", "Default", "Slice", 0),
    Opt("i32", "i32", "I32", "Default", "Scalar", 0),
    Opt("i32_hex", "i32", "Hex32", "Default", "Scalar", 0),
    Opt("i32_hex_slice", "i32", "Hex32", "Default", "Slice", 0),
    Opt("i32_slice", "i32", "I32", "Default", "Slice", 0),
    Opt("i64", "i64", "I64", "Default", "Scalar", 0),
    Opt("i64_hex", "i64", "Hex64", "Default", "Scalar", 0),
    Opt("i64_hex_slice", "i64", "Hex64", "Default", "Slice", 0),
    Opt("i64_slice", "i64", "I64", "Default", "Slice", 0),
    Opt("i8", "i8", "I8", "Default", "Scalar", 0),
    Opt("i8_hex", "i8", "U8", "Hex", "Scalar", 0),
    Opt("i8_hex_slice", "i8", "U8", "Hex", "Slice", 0),
    Opt("i8_slice", "i8", "I8", "Default", "Slice", 0),
    Opt("ipv4", "u8", "U32", "IPv4", "Scalar", 4),
    Opt("ipv4_slice", "u8", "U32", "IPv4", "Slice", 4),
    Opt("ipv6", "u8", "Binary", "IPv6", "Counted", 16),
    Opt("ipv6c", "u8", "BinaryC", "IPv6", "Counted", 16),
    Opt("isize", "isize", "ISize", "Default", "Scalar", 0),
    Opt("isize_hex", "isize", "HexSize", "Default", "Scalar", 0),
    Opt("isize_hex_slice", "isize", "HexSize", "Default", "Slice", 0),
    Opt("isize_slice", "isize", "ISize", "Default", "Slice", 0),
    Opt("pid", "u32", "U32", "Pid", "Scalar", 0),
    Opt("pid_slice", "u32", "U32", "Pid", "Slice", 0),
    Opt("pointer", "usize", "HexSize", "Default", "Scalar", 0),
    Opt("pointer_slice", "usize", "HexSize", "Default", "Slice", 0),
    Opt("port", "u16", "U16", "Port", "Scalar", 0),
    Opt("port_slice", "u16", "U16", "Port", "Slice", 0),
    Opt("raw_data", "u8", "Invalid", "Default", "RawData", 0),
    Opt("raw_field", "u8", "Invalid", "Default", "RawField", 0),
    Opt("raw_field_slice", "u8", "Invalid", "Default", "RawFieldSlice", 0),
    Opt("raw_meta", "&[]", "Invalid", "Default", "RawMeta", 0),
    Opt("raw_meta_slice", "&[]", "Invalid", "Default", "RawMetaSlice", 0),
    Opt("raw_struct", "&[]", "Struct", "Default", "RawStruct", 0),
    Opt("raw_struct_slice", "&[]", "Struct", "Default", "RawStructSlice", 0),
    Opt("socketaddress", "u8", "Binary", "SocketAddress", "Counted", 0),
    Opt("socketaddressc", "u8", "BinaryC", "SocketAddress", "Counted", 0),
    Opt("str16", "u16", "Str16", "Default", "Counted", 0),
    Opt("str16_json", "u16", "Str16", "Json", "Counted", 0),
    Opt("str16_xml", "u16", "Str16", "Xml", "Counted", 0),
    Opt("str8", "u8", "Str8", "Utf8", "Counted", 0),
    Opt("str8_cp1252", "u8", "Str8", "Default", "Counted", 0),
    Opt("str8_json", "u8", "Str8", "Json", "Counted", 0),
    Opt("str8_xml", "u8", "Str8", "Xml", "Counted", 0),
    Opt("struct", "&[]", "Struct", "Default", "Struct", 0),
    Opt("systemtime", "i64", "FileTime", "Default", "SystemTime", 0),
    Opt("tid", "u32", "U32", "Tid", "Scalar", 0),
    Opt("tid_slice", "u32", "U32", "Tid", "Slice", 0),
    Opt("time32", "i64", "FileTime", "Default", "Time32", 0),
    Opt("time64", "i64", "FileTime", "Default", "Time64", 0),
    Opt("u16", "u16", "U16", "Default", "Scalar", 0),
    Opt("u16_hex", "u16", "U16", "Hex", "Scalar", 0),
    Opt("u16_hex_slice", "u16", "U16", "Hex", "Slice", 0),
    Opt("u16_slice", "u16", "U16", "Default", "Slice", 0),
    Opt("u32", "u32", "U32", "Default", "Scalar", 0),
    Opt("u32_hex", "u32", "Hex32", "Default", "Scalar", 0),
    Opt("u32_hex_slice", "u32", "Hex32", "Default", "Slice", 0),
    Opt("u32_slice", "u32", "U32", "Default", "Slice", 0),
    Opt("u64", "u64", "U64", "Default", "Scalar", 0),
    Opt("u64_hex", "u64", "Hex64", "Default", "Scalar", 0),
    Opt("u64_hex_slice", "u64", "Hex64", "Default", "Slice", 0),
    Opt("u64_slice", "u64", "U64", "Default", "Slice", 0),
    Opt("u8", "u8", "U8", "Default", "Scalar", 0),
    Opt("u8_hex", "u8", "U8", "Hex", "Scalar", 0),
    Opt("u8_hex_slice", "u8", "U8", "Hex", "Slice", 0),
    Opt("u8_slice", "u8", "U8", "Default", "Slice", 0),
    Opt("usize", "usize", "USize", "Default", "Scalar", 0),
    Opt("usize_hex", "usize", "HexSize", "Default", "Scalar", 0),
    Opt("usize_hex_slice", "usize", "HexSize", "Default", "Slice", 0),
    Opt("usize_slice", "usize", "USize", "Default", "Slice", 0),
    Opt("win_error", "u32", "U32", "Win32Error", "Scalar", 0),
    Opt("win_error_slice", "u32", "U32", "Win32Error", "Slice", 0),
    Opt("win_filetime", "i64", "FileTime", "Default", "Scalar", 0),
    Opt("win_filetime_slice", "i64", "FileTime", "Default", "Slice", 0),
    Opt("win_ntstatus", "i32", "Hex32", "NtStatus", "Scalar", 0),
    Opt("win_ntstatus_slice", "i32", "Hex32", "NtStatus", "Slice", 0),
    Opt("win_sid", "u8", "Sid", "Default", "Sid", 0),
    Opt("win_systemtime", "u16", "SystemTime", "Default", "Scalar", 8),
    Opt("win_systemtime_slice", "u16", "SystemTime", "Default", "Slice", 8),
    Opt("win_systemtime_utc", "u16", "SystemTime", "DateTimeUtc", "Scalar", 8),
    Opt("win_systemtime_utc_slice", "u16", "SystemTime", "DateTimeUtc", "Slice", 8)
>>

\* table.binary_search_by(|o| o.option_name.cmp(&option_name)):
\* 0 when the name is not in the table, else the index of its entry.
binary_search_by(table, option_name) ==
    IF \E i \in 1..Len(table) : table[i].option_name = option_name
    THEN CHOOSE i \in 1..Len(table) : table[i].option_name = option_name
    ELSE 0

FieldOptionIndex(option_name) == binary_search_by(FIELD_OPTIONS, option_name)

\* ----------------------------------------------------------- strings.rs
CHANNEL_ENUMS ==
    <<"ProviderMetadata", "TraceClassic", "TraceLogging">>
\* A faulty LEVEL_ENUMS, to show what C23 detects: the names in the order of
\* their severity
LEVEL_ENUMS_by_severity ==
    <<"LogAlways", "Critical", "Error", "Warning", "Informational", "Verbose">>

LEVEL_ENUMS ==
    <<"Critical", "Error", "Informational", "LogAlways", "Verbose",
      "Warning">>
OPCODE_ENUMS ==
    <<"DC_Start", "DC_Stop", "Extension", "Info", "Receive", "Reply",
      "Resume", "Send", "Start", "Stop", "Suspend">>
INTYPE_ENUMS ==
    <<"Binary", "Bool32", "CStr16", "CStr8", "CountedBinary", "F32", "F64",
      "FileTime", "Guid", "Hex32", "Hex64", "HexSize", "I16", "I32", "I64",
      "I8", "ISize", "Invalid", "Sid", "Str16", "Str8", "Struct",
      "SystemTime", "U16", "U32", "U64", "U8", "USize">>
OUTTYPE_ENUMS ==
    <<"Boolean", "CodePointer", "DateTime", "DateTimeCultureInsensitive",
      "DateTimeUtc", "Default", "HResult", "Hex", "IPv4", "IPv6", "Json",
      "NoPrint", "NtStatus", "Pid", "Pkcs7WithTypeInfo", "Port", "Signed",
      "SocketAddress", "String", "Tid", "Unsigned", "Utf8", "Win32Error",
      "Xml">>

\* known_values.binary_search(&str): 0 when str is not in the table, else
\* the index of its entry
binary_search(known_values, str) ==
    IF \E i \in 1..Len(known_values) : known_values[i] = str
    THEN CHOOSE i \in 1..Len(known_values) : known_values[i] = str
    ELSE 0

\* ------------------------------------------------------------ diagnostics
MsgMetadata == "event metadata is too large"
MsgBlocks == "event has too many blocks of data"
MsgFields == "event has too many fields (limit is 128 fields)"
MsgStructFields == "too many fields in struct (limit 127)"
MsgUnrecognized == "unrecognized option"
MsgRawStruct == "RawStruct not allowed within Struct"
MsgEventNameNul == "event name must not contain NUL"
MsgFieldNameNul == "field name must not contain NUL"
MsgExpectedIdent == "expected identifier"
MsgExpectedGroup == "expected parentheses or curly braces"
MsgExpectedLit == "expected string literal"
MsgExpectedExpr == "expected expression"
MsgExpectedComma == "expected comma"
MsgExpectedParen == "expected parentheses"
MsgExpectedOptionOrStruct == "expected curly brace for struct or identifier for option name"
MsgExpectedOption == "expected one of: struct, curly braces, identifier"

AlreadySet(option) ==
    CASE option = "id_version" -> "id_version already set"
      [] option = "channel" -> "channel already set"
      [] option = "level" -> "level already set"
      [] option = "opcode" -> "opcode already set"
      [] option = "task" -> "task already set"
      [] option = "tag" -> "tag already set"
      [] option = "activity_id" -> "activity_id already set"
      [] option = "related_id" -> "related_id already set"
      [] option = "format" -> "format already set"

\* --------------------------------------------------------- values
\* Option<Expr>: None, or the tokens of an expression.  w is the wrapper the
\* parser put around the tokens of the user (empty when it put none), e its enum.
None == [k |-> "none", s |-> "", n |-> 0, w |-> "", e |-> ""]
ExprOf(tok) == [k |-> tok.t, s |-> tok.s, n |-> tok.n, w |-> "", e |-> ""]
is_some(x) == x.k # "none"
is_none(x) == x.k = "none"

\* String: the character ch repeated n times
Str(ch, n) == [ch |-> ch, n |-> n]
StrLen(str) == str.n
ContainsNul(str) == str.ch = "NUL" /\ str.n > 0

\* parse_quote!(...) of a literal default
Quote(s, n) == [k |-> "quote", s |-> s, n |-> n, w |-> "", e |-> ""]

\* ------------------------------------------------------------- parser.rs
eat_comma_opt(input) ==
    IF input # <<>> /\ input[1].t = "comma" THEN Tail(input) ELSE input

\* input.parse::<Expr>(): [ok, val, rest].  An expression is one expression
\* token, or an identifier, optionally applied to a parenthesised group.
ParseExpr(input) ==
    IF input = <<>> \/ input[1].t \notin {"int", "expr", "ident", "lit"}
    THEN [ok |-> FALSE, val |-> None, rest |-> input]
    ELSE IF input[1].t = "ident" /\ Len(input) >= 2 /\ input[2].t = "paren"
    THEN [ok |-> TRUE,
          val |-> [k |-> "expr", s |-> input[1].s, n |-> 0, w |-> "", e |-> ""],
          rest |-> SubSeq(input, 3, Len(input))]
    ELSE [ok |-> TRUE, val |-> ExprOf(input[1]), rest |-> Tail(input)]

\* next_arg: [k, err, ident, inner, rest] with k one of
\* Err, None, Option, OptionStruct, Struct.
ArgRes(k, err, ident, inner, rest) ==
    [k |-> k, err |-> err, ident |-> ident, inner |-> inner, rest |-> rest]

next_arg(input, want_struct) ==
    IF input = <<>>
    THEN IF want_struct
         THEN ArgRes("Err", MsgExpectedOptionOrStruct, "", <<>>, input)
         ELSE ArgRes("None", "", "", <<>>, input)
    ELSE IF input[1].t = "struct"
    THEN IF Len(input) >= 2 /\ input[2].t = "paren"
         THEN ArgRes("OptionStruct", "", "", input[2].c,
                     eat_comma_opt(SubSeq(input, 3, Len(input))))
         ELSE ArgRes("Err", MsgExpectedParen, "", <<>>, input)
    ELSE IF input[1].t = "brace"
    THEN ArgRes("Struct", "", "", input[1].c, eat_comma_opt(Tail(input)))
    ELSE IF input[1].t = "ident"
    THEN IF Len(input) >= 2 /\ input[2].t = "paren"
         THEN ArgRes("Option", "", input[1].s, input[2].c,
                     eat_comma_opt(SubSeq(input, 3, Len(input))))
         ELSE ArgRes("Err", MsgExpectedParen, "", <<>>, input)
    ELSE ArgRes("Err", MsgExpectedOption, "", <<>>, input)

\* ---------------------------------------------------------- event_info.rs
\* The parser state threaded through the handlers:
\*   event  : the EventInfo under construction
\*   errors : the Errors aggregate, a list of messages in the order recorded
\*   stack  : one frame per active call of parse_event_options
\*   pc     : start, options, finish, done
\*   result : what EventInfo::parse returned
FieldInfo(option) ==
    [option |-> option,
     name |-> Str("", 0),
     value_tokens |-> None,
     intype_tokens |-> None,
     outtype_or_field_count_expr |-> None,
     outtype_or_field_count_int |-> OutTypeInt(option.outtype),
     tag |-> None]

Strategy(field) == field.option.strategy

\* One call of parse_event_options: the tokens left in its parent_parser,
\* in_struct, logical_fields_added and, for a nested call, the index of the
\* struct field that owns it and that field's field_has_metadata.
Frame(toks, in_struct, struct_index, field_has_metadata) ==
    [toks |-> toks, in_struct |-> in_struct, logical_fields_added |-> 0,
     struct_index |-> struct_index, field_has_metadata |-> field_has_metadata]

Top(P) == P.stack[Len(P.stack)]

SetToks(P, toks) == [P EXCEPT !.stack[Len(P.stack)].toks = toks]

Ok == [ok |-> TRUE, errs |-> <<>>]
Err(errs) == [ok |-> FALSE, errs |-> errs]

\* errors.add / errors.push
AddError(P, msg) == [P EXCEPT !.errors = Append(@, msg)]

\* A syn error leaves the parser through the ? operator: parse returns that
\* error alone.
Abort(P, msg) == [P EXCEPT !.pc = "done", !.result = Err(<<msg>>)]

\* A faulty add_estimated_metadata, to show what C28 detects: the limit is
\* not tested, and the u16 addition wraps.
add_estimated_metadata_wrapping(P, size) ==
    LET used == P.event.estimated_metadata_bytes_used IN
    IF used = 0
    THEN P
    ELSE [P EXCEPT !.event.estimated_metadata_bytes_used =
                       (used + size) % 65536]



add_estimated_metadata(P, size) ==
    LET used == P.event.estimated_metadata_bytes_used IN
    IF used = 0
    THEN P
    ELSE IF METADATA_BYTES_MAX - used >= size
    THEN [P EXCEPT !.event.estimated_metadata_bytes_used = used + size]
    ELSE AddError([P EXCEPT !.event.estimated_metadata_bytes_used = 0],
                  MsgMetadata)

\* A faulty add_data_desc_used, to show what C3 detects: the limit test is
\* written with > in place of >=, so a total of exactly 128 blocks is refused.
add_data_desc_used_strict(P, count) ==
    LET used == P.event.data_desc_used IN
    IF used = 0
    THEN P
    ELSE IF DATA_DESC_MAX - used > count
    THEN [P EXCEPT !.event.data_desc_used = used + count]
    ELSE AddError([P EXCEPT !.event.data_desc_used = 0], MsgBlocks)

add_data_desc_used(P, count) ==
    LET used == P.event.data_desc_used IN
    IF used = 0
    THEN P
    ELSE IF DATA_DESC_MAX - used >= count
    THEN [P EXCEPT !.event.data_desc_used = used + count]
    ELSE AddError([P EXCEPT !.event.data_desc_used = 0], MsgBlocks)

\* A faulty estimate, to show what C11 detects: the tag of a field is not
\* counted.
FieldMetadataEstimate_untagged(field) ==
    StrLen(field.name) + 1
    + (IF field.outtype_or_field_count_int # 0 THEN 2 ELSE 1)


\* the metadata_size computed by push_field
FieldMetadataEstimate(field) ==
    StrLen(field.name) + 1
    + (IF is_some(field.tag) THEN 6
       ELSE IF field.outtype_or_field_count_int # 0 THEN 2
       ELSE 1)

\* A faulty field-count test, to show what C2 detects: written with >= in
\* place of ==, it reports at every field past the cap.
TooManyFields_every(P) ==
    IF Len(P.event.fields) >= FIELDS_MAX THEN AddError(P, MsgFields) ELSE P

\* the field-count test of push_field (lines 474-479)
TooManyFields(P) ==
    IF Len(P.event.fields) = FIELDS_MAX THEN AddError(P, MsgFields) ELSE P

push_field(P, field) ==
    LET P1 == add_estimated_metadata(P, FieldMetadataEstimate(field))
        P2 == add_data_desc_used(P1, data_count(Strategy(field)))
        P3 == TooManyFields(P2)
    IN [P3 EXCEPT !.event.fields = Append(@, field)]

filter_enum_tokens(tokens, enum_name, known_values) ==
    IF tokens.k = "int"
    THEN [tokens EXCEPT !.w = "from_int", !.e = enum_name]
    ELSE IF tokens.k = "ident" /\ binary_search(known_values, tokens.s) # 0
    THEN [tokens EXCEPT !.w = "qualified", !.e = enum_name]
    ELSE tokens

\* field_accepts_tag, field_accepts_format, field_wants_struct
Caps(strategy) ==
    CASE strategy \in {"Scalar", "SystemTime", "Time32", "Time64", "Sid",
                       "CStr", "Counted", "Slice"} ->
             [accepts_tag |-> TRUE, accepts_format |-> TRUE, wants_struct |-> FALSE]
      [] strategy = "Struct" ->
             [accepts_tag |-> TRUE, accepts_format |-> FALSE, wants_struct |-> TRUE]
      [] strategy \in {"RawField", "RawFieldSlice", "RawMeta", "RawMetaSlice"} ->
             [accepts_tag |-> TRUE, accepts_format |-> TRUE, wants_struct |-> FALSE]
      [] strategy \in {"RawStruct", "RawStructSlice"} ->
             [accepts_tag |-> TRUE, accepts_format |-> FALSE, wants_struct |-> FALSE]
      [] strategy = "RawData" ->
             [accepts_tag |-> FALSE, accepts_format |-> FALSE, wants_struct |-> FALSE]

\* Lines 350-356 and 446: the struct field limit, the count of logical
\* fields, and the comma after the option.
\* A faulty struct field limit, to show what C4 detects: written with >= in
\* place of ==, it reports at every field past the 127th.
StructFieldLimit_every(P) ==
    IF Top(P).in_struct /\ Top(P).logical_fields_added >= STRUCT_FIELDS_MAX
    THEN AddError(P, MsgStructFields)
    ELSE P

StructFieldLimit(P) ==
    IF Top(P).in_struct /\ Top(P).logical_fields_added = STRUCT_FIELDS_MAX
    THEN AddError(P, MsgStructFields)
    ELSE P

SaturatingAdd1(x) == IF x = U8_MAX THEN U8_MAX ELSE x + 1

after_field(P, field_has_metadata) ==
    LET P1 == IF field_has_metadata
              THEN [StructFieldLimit(P) EXCEPT
                      !.stack[Len(P.stack)].logical_fields_added = SaturatingAdd1(@)]
              ELSE P
    IN SetToks(P1, eat_comma_opt(Top(P1).toks))

\* ArgResult::Struct: push the field, then parse the braces in a nested call.
enter_struct(P, field, inner) ==
    LET struct_index == Len(P.event.fields)
        P1 == push_field(P, [field EXCEPT !.outtype_or_field_count_int = 1])
    IN [P1 EXCEPT !.stack =
           Append(@, Frame(inner, TRUE, struct_index, has_metadata(Strategy(field))))]

\* A faulty leave_struct, to show what C17 detects: the placeholder of the
\* struct field is not replaced by the count of its fields.
leave_struct_placeholder(P) ==
    LET f == Top(P)
        P1 == [P EXCEPT !.stack = SubSeq(@, 1, Len(@) - 1)]
    IN after_field(P1, f.field_has_metadata)


\* The nested call returned: back-patch the field count of the struct, then
\* finish the iteration of the outer loop.
leave_struct(P) ==
    LET f == Top(P)
        P1 == [P EXCEPT
                 !.stack = SubSeq(@, 1, Len(@) - 1),
                 !.event.fields[f.struct_index + 1].outtype_or_field_count_int =
                     AndTypeMask(f.logical_fields_added)]
    IN after_field(P1, f.field_has_metadata)

\* parse_event_options returns Ok(logical_fields_added)
return_options(P) ==
    IF Len(P.stack) = 1 THEN [P EXCEPT !.pc = "finish"] ELSE leave_struct(P)

\* The loop over next_arg (lines 298-348).
RECURSIVE field_args(_, _, _)
field_args(P, field, input) ==
    LET caps == Caps(Strategy(field))
        a == next_arg(input, caps.wants_struct)
    IN CASE a.k = "Err" -> Abort(P, a.err)
         [] a.k = "None" -> after_field(push_field(P, field),
                                        has_metadata(Strategy(field)))
         [] a.k = "Struct" -> enter_struct(P, field, a.inner)
         [] a.k = "OptionStruct" ->
                field_args(AddError(P, MsgUnrecognized), field, a.rest)
         [] a.k = "Option" ->
                LET e == ParseExpr(a.inner) IN
                IF a.ident = "tag" /\ caps.accepts_tag
                THEN LET P1 == IF is_some(field.tag)
                               THEN AddError(P, AlreadySet("tag")) ELSE P
                     IN IF e.ok
                        THEN field_args(P1, [field EXCEPT !.tag = e.val], a.rest)
                        ELSE Abort(P1, MsgExpectedExpr)
                ELSE IF a.ident = "format" /\ caps.accepts_format
                THEN LET P1 == IF is_some(field.outtype_or_field_count_expr)
                               THEN AddError(P, AlreadySet("format")) ELSE P
                     IN IF e.ok
                        THEN field_args(P1,
                                 [field EXCEPT !.outtype_or_field_count_expr =
                                     filter_enum_tokens(e.val, "OutType", OUTTYPE_ENUMS)],
                                 a.rest)
                        ELSE Abort(P1, MsgExpectedExpr)
                ELSE field_args(AddError(P, MsgUnrecognized), field, a.rest)

\* The value of a field with data (lines 292-296), then its suboptions.
field_value(P, field, input) ==
    IF data_count(Strategy(field)) # 0
    THEN LET e == ParseExpr(input) IN
         IF e.ok
         THEN field_args(P, [field EXCEPT !.value_tokens = e.val],
                         eat_comma_opt(e.rest))
         ELSE Abort(P, MsgExpectedExpr)
    ELSE field_args(P, field, input)

\* The match on the strategy (lines 235-290).
field_strategy(P, field, input) ==
    LET strategy == Strategy(field)
        e == ParseExpr(input)
    IN IF strategy \in {"RawField", "RawFieldSlice", "RawMeta", "RawMetaSlice"}
       THEN IF e.ok
            THEN field_value(P,
                     [field EXCEPT !.intype_tokens =
                         filter_enum_tokens(e.val, "InType", INTYPE_ENUMS)],
                     e.rest)
            ELSE Abort(P, MsgExpectedExpr)
       ELSE IF strategy \in {"RawStruct", "RawStructSlice"}
       THEN LET P1 == IF Top(P).in_struct THEN AddError(P, MsgRawStruct) ELSE P
            IN IF e.ok
               THEN field_value(P1,
                        [field EXCEPT !.outtype_or_field_count_expr =
                            [e.val EXCEPT !.w = "from_int", !.e = "OutType"]],
                        e.rest)
               ELSE Abort(P1, MsgExpectedExpr)
       ELSE field_value(P, field, input)

\* A field option (lines 202-229): the field name, when the strategy has
\* metadata, then the rest of the option.
field_option(P, option, option_parser) ==
    LET field == FieldInfo(option) IN
    IF ~has_metadata(Strategy(field))
    THEN field_strategy(P, field, option_parser)
    ELSE IF option_parser = <<>> \/ option_parser[1].t # "lit"
    THEN Abort(P, MsgExpectedLit)
    ELSE LET field_name == Str(option_parser[1].s, option_parser[1].n)
             P1 == IF ContainsNul(field_name)
                   THEN AddError(P, MsgFieldNameNul) ELSE P
         IN field_strategy(P1, [field EXCEPT !.name = field_name],
                           eat_comma_opt(Tail(option_parser)))

\* The single-valued event options and their slots in EventInfo.
SingleValued ==
    {"id_version", "channel", "level", "opcode", "task", "tag",
     "activity_id", "related_id"}

EventOptionNames == SingleValued \cup {"debug", "keyword"}

Slot(ev, option_name) ==
    CASE option_name = "id_version" -> ev.id_tokens
      [] option_name = "channel" -> ev.channel_tokens
      [] option_name = "level" -> ev.level
      [] option_name = "opcode" -> ev.opcode_tokens
      [] option_name = "task" -> ev.task_tokens
      [] option_name = "tag" -> ev.tag
      [] option_name = "activity_id" -> ev.activity_id
      [] option_name = "related_id" -> ev.related_id

SetSlot(P, option_name, val) ==
    CASE option_name = "id_version" -> [P EXCEPT !.event.id_tokens = val]
      [] option_name = "channel" ->
             [P EXCEPT !.event.channel_tokens =
                 filter_enum_tokens(val, "Channel", CHANNEL_ENUMS)]
      [] option_name = "level" ->
             [P EXCEPT !.event.level = filter_enum_tokens(val, "Level", LEVEL_ENUMS)]
      [] option_name = "opcode" ->
             [P EXCEPT !.event.opcode_tokens =
                 filter_enum_tokens(val, "Opcode", OPCODE_ENUMS)]
      [] option_name = "task" -> [P EXCEPT !.event.task_tokens = val]
      [] option_name = "tag" -> [P EXCEPT !.event.tag = val]
      [] option_name = "activity_id" -> [P EXCEPT !.event.activity_id = val]
      [] option_name = "related_id" -> [P EXCEPT !.event.related_id = val]

\* A faulty CheckAlreadySet, to show what C10 detects: the diagnostic is
\* recorded when the slot is still free.
CheckAlreadySet_free(P, option_name) ==
    IF is_none(Slot(P.event, option_name))
    THEN AddError(P, AlreadySet(option_name))
    ELSE P

\* "<option> already set" when the slot is taken (lines 364, 375, ...)
CheckAlreadySet(P, option_name) ==
    IF is_some(Slot(P.event, option_name))
    THEN AddError(P, AlreadySet(option_name))
    ELSE P

\* id_version(id, version)
id_version_option(P, option_parser) ==
    LET P1 == CheckAlreadySet(P, "id_version")
        id == ParseExpr(option_parser)
        version == ParseExpr(Tail(id.rest))
    IN IF ~id.ok
       THEN Abort(P1, MsgExpectedExpr)
       ELSE IF id.rest = <<>> \/ id.rest[1].t # "comma"
       THEN Abort(P1, MsgExpectedComma)
       ELSE IF ~version.ok
       THEN Abort(P1, MsgExpectedExpr)
       ELSE [P1 EXCEPT !.event.id_tokens = id.val,
                       !.event.version_tokens = version.val]

\* A faulty event_option, to show what C29 detects: the guards on in_struct
\* are missing, and an event option is accepted inside a nested group.
event_option_anywhere(P, option_name, option_parser) ==
    LET e == ParseExpr(option_parser) IN
    IF option_name \notin EventOptionNames
    THEN AddError(P, MsgUnrecognized)
    ELSE IF option_name = "debug"
    THEN P
    ELSE LET P1 ==
             IF option_name = "id_version"
             THEN id_version_option(P, option_parser)
             ELSE IF option_name = "keyword"
             THEN IF e.ok
                  THEN [P EXCEPT !.event.keywords = Append(@, e.val)]
                  ELSE Abort(P, MsgExpectedExpr)
             ELSE IF e.ok
                  THEN SetSlot(CheckAlreadySet(P, option_name), option_name, e.val)
                  ELSE Abort(CheckAlreadySet(P, option_name), MsgExpectedExpr)
         IN IF P1.pc = "done" THEN P1 ELSE SetToks(P1, eat_comma_opt(Top(P1).toks))


\* An option that is no field option (lines 358-443).  debug and an
\* unrecognized option continue the loop: the comma after them is not eaten.
event_option(P, option_name, option_parser) ==
    LET e == ParseExpr(option_parser) IN
    IF Top(P).in_struct \/ option_name \notin EventOptionNames
    THEN AddError(P, MsgUnrecognized)
    ELSE IF option_name = "debug"
    THEN P
    ELSE LET P1 ==
             IF option_name = "id_version"
             THEN id_version_option(P, option_parser)
             ELSE IF option_name = "keyword"
             THEN IF e.ok
                  THEN [P EXCEPT !.event.keywords = Append(@, e.val)]
                  ELSE Abort(P, MsgExpectedExpr)
             ELSE IF e.ok
                  THEN SetSlot(CheckAlreadySet(P, option_name), option_name, e.val)
                  ELSE Abort(CheckAlreadySet(P, option_name), MsgExpectedExpr)
         IN IF P1.pc = "done" THEN P1 ELSE SetToks(P1, eat_comma_opt(Top(P1).toks))

\* What the next iteration of the loop of parse_event_options meets.
StepKind(P) ==
    LET toks == Top(P).toks IN
    IF toks = <<>> THEN "Return"
    ELSE IF toks[1].t # "ident" THEN "BadIdent"
    ELSE IF Len(toks) < 2 \/ toks[2].t \notin {"paren", "brace"} THEN "NoGroup"
    ELSE IF FieldOptionIndex(toks[1].s) # 0 THEN "Field"
    ELSE IF Top(P).in_struct \/ toks[1].s \notin EventOptionNames THEN "Unrecognized"
    ELSE IF toks[1].s = "debug" THEN "Debug"
    ELSE "EventOption"

\* One iteration of the while loop of parse_event_options (lines 177-447), or
\* its return when the parser is empty.
parse_event_options(P) ==
    LET toks == Top(P).toks IN
    IF toks = <<>>
    THEN return_options(P)
    ELSE IF toks[1].t # "ident"
    THEN Abort(P, MsgExpectedIdent)
    ELSE IF Len(toks) < 2 \/ toks[2].t \notin {"paren", "brace"}
    THEN return_options(AddError(SetToks(P, Tail(toks)), MsgExpectedGroup))
    ELSE LET P1 == SetToks(P, SubSeq(toks, 3, Len(toks)))
             field_option_index == FieldOptionIndex(toks[1].s)
         IN IF field_option_index # 0
            THEN field_option(P1, FIELD_OPTIONS[field_option_index], toks[2].c)
            ELSE event_option(P1, toks[1].s, toks[2].c)

\* EventInfo::parse up to the call of parse_event_options (lines 47-115).
\* in = [name: the event name literal, opts: the tokens after it]
EventInfo0(name) ==
    [provider_symbol |-> "PROV",
     name |-> name,
     id_tokens |-> None, version_tokens |-> None, channel_tokens |-> None,
     opcode_tokens |-> None, task_tokens |-> None, level |-> None,
     keywords |-> <<>>, tag |-> None, activity_id |-> None, related_id |-> None,
     fields |-> <<>>,
     data_desc_used |-> 2,
     estimated_metadata_bytes_used |-> 2 + 4]

parse_begin(in) ==
    LET P0 == [event |-> EventInfo0(in.name), errors |-> <<>>, stack |-> <<>>,
               pc |-> "options", result |-> Err(<<>>)]
        P1 == add_estimated_metadata(P0, StrLen(in.name) + 1)
        P2 == IF ContainsNul(in.name) THEN AddError(P1, MsgEventNameNul) ELSE P1
    IN [P2 EXCEPT !.stack = <<Frame(eat_comma_opt(in.opts), FALSE, 0, FALSE)>>]

\* A faulty Default, to show what C12 detects: the default replaces the value
\* that an option has set.
Default_always(x, d) == d


\* Defaults for the optional values (lines 117-157)
Default(x, d) == IF is_none(x) THEN d ELSE x

set_defaults(ev) ==
    [ev EXCEPT
       !.id_tokens = Default(@, Quote("0u16", 0)),
       !.version_tokens = Default(@, Quote("0u8", 0)),
       !.channel_tokens = Default(@, Quote("::tracelogging::Channel::TraceLogging", 0)),
       !.level = Default(@, Quote("::tracelogging::Level::Verbose", 0)),
       !.opcode_tokens = Default(@, Quote("::tracelogging::Opcode::Info", 0)),
       !.task_tokens = Default(@, Quote("0u16", 0)),
       !.keywords = IF @ = <<>> THEN <<Quote("1", 1)>> ELSE @,
       !.tag = Default(@, Quote("0", 0))]

\* A faulty check, to show what C13 detects: the diagnostics recorded do not
\* make the parse fail.
check_passes(errors) == Ok


\* errors.check()
check(errors) == IF errors # <<>> THEN Err(errors) ELSE Ok

\* EventInfo::parse after parse_event_options returned (lines 117-163)
parse_finish(P) ==
    [P EXCEPT !.event = set_defaults(@), !.result = check(P.errors), !.pc = "done"]

\* ----------------------------------------------------- tracelogging crate
\* InType codes (enums.rs)
InTypeInt(name) ==
    CASE name = "Invalid" -> 0
      [] name = "CStr16" -> 1
      [] name = "CStr8" -> 2
      [] name = "I8" -> 3
      [] name = "U8" -> 4
      [] name = "I16" -> 5
      [] name = "U16" -> 6
      [] name = "I32" -> 7
      [] name = "U32" -> 8
      [] name = "I64" -> 9
      [] name = "U64" -> 10
      [] name = "F32" -> 11
      [] name = "F64" -> 12
      [] name = "Bool32" -> 13
      [] name = "Binary" -> 14
      [] name = "Guid" -> 15
      [] name = "FileTime" -> 17
      [] name = "SystemTime" -> 18
      [] name = "Sid" -> 19
      [] name = "Hex32" -> 20
      [] name = "Hex64" -> 21
      [] name = "Str16" -> 22
      [] name = "Str8" -> 23
      [] name = "Struct" -> 24
      [] name = "BinaryC" -> 25
      [] OTHER -> 0

\* The in-types whose code depends on the pointer size of the target and is
\* therefore emitted by name (EnumToken::Str), not as a byte (EnumToken::U8).
PointerSized == {"ISize", "USize", "HexSize"}

\* InType::VariableCountFlag
VariableCountFlag == 64

\* The flag that says another byte follows (0x80)
ChainFlag == 128

\* tag_size: the bytes of the encoding of a 28-bit tag, 7 bits to a byte from
\* the most significant; trailing zero groups are dropped.
tag_size(tag) ==
    IF tag = 0 THEN 0
    ELSE IF tag % 2097152 = 0 THEN 1
    ELSE IF tag % 16384 = 0 THEN 2
    ELSE IF tag % 128 = 0 THEN 3
    ELSE 4

\* --------------------------------------------------- event_generator.rs
\* Token trees are lists of items, one item per comma-terminated element.
\* meta_type_tree and meta_init_tree are always extended together, one element
\* each, so the model keeps them as one list, meta_tree, of paired elements.
\* meta_buffer is a list of runs [b, n]: the byte b, n times.
Run(b, n) == [b |-> b, n |-> n]

ByteOf(ch) ==
    CASE ch = "NUL" -> 0
      [] ch = "E" -> 69
      [] ch = "s" -> 115
      [] ch = "t" -> 116
      [] ch = "x" -> 120
      [] OTHER -> 63

\* name.as_bytes()
as_bytes(str) == IF str.n = 0 THEN <<>> ELSE <<Run(ByteOf(str.ch), str.n)>>

RECURSIVE RunsLen(_)
RunsLen(runs) == IF runs = <<>> THEN 0 ELSE runs[1].n + RunsLen(Tail(runs))

\* an element of meta_type_tree with the matching element of meta_init_tree:
\*   k = size   : u16            / size_of::<_TlgMeta>() as u16
\*   k = tag    : [u8; tag_size] / tag_encode(ident)
\*   k = bytes  : [u8; N]        / the literal bytes
\*   k = type   : u8             / a deferred type code, or-ed with flags
MetaItem(k, ident, bytes, expr, flags) ==
    [k |-> k, ident |-> ident, bytes |-> bytes, expr |-> expr, flags |-> flags]

NoIdent == [s |-> "", n |-> 0]
\* IdentBuilder: base name and numeric suffix; the event tag has no suffix
Ident(base, suffix) == [s |-> base, n |-> suffix]
TLG_TAG == Ident("_TLG_TAG", -1)

\* an element of the descriptor list: k names the constructor, arg is the N of
\* the _tlg_argN it references and idx the slot of _tlg_lengths it references
\* (NoRef when it references none)
NoRef == -1
Desc(k, arg, idx) == [k |-> k, arg |-> arg, idx |-> idx]

\* an element of func_args_tree / func_call_tree
Arg(name, n, shape, ty, value) ==
    [name |-> name, n |-> n, shape |-> shape, ty |-> ty, value |-> value]

FixedArgs ==
    << Arg("_tlg_prov", 0, "fixed", "Provider", None),
       Arg("_tlg_meta", 0, "fixed", "[u8]", None),
       Arg("_tlg_desc", 0, "fixed", "EventDescriptor", None),
       Arg("_tlg_aid", 0, "fixed", "Option<&[u8; 16]>", None),
       Arg("_tlg_rid", 0, "fixed", "Option<&[u8; 16]>", None) >>

\* EventGenerator::new
NewGenerator ==
    [tags_tree |-> <<>>, meta_tree |-> <<>>, func_args_tree |-> <<>>,
     func_call_tree |-> <<>>, lengths_init_tree |-> <<>>,
     data_desc_init_tree |-> <<>>, enabled_tree |-> <<>>,
     meta_buffer |-> <<>>, field_count |-> 0, lengths_count |-> 0]

flush_meta_buffer(g) ==
    IF g.meta_buffer # <<>>
    THEN [g EXCEPT
            !.meta_tree = Append(@, MetaItem("bytes", NoIdent, g.meta_buffer, None, 0)),
            !.meta_buffer = <<>>]
    ELSE g

\* A faulty add_tag, to show what C19 detects: the literal buffer is not
\* flushed before the tag is appended, so the tag overtakes the bytes that
\* were produced before it.
add_tag_unflushed(g, tag_ident, expression) ==
    [g EXCEPT
       !.tags_tree = Append(@, [ident |-> tag_ident, expr |-> expression]),
       !.meta_tree = Append(@, MetaItem("tag", tag_ident, <<>>, None, 0))]



add_tag(g, tag_ident, expression) ==
    LET g1 == flush_meta_buffer(g) IN
    [g1 EXCEPT
       !.tags_tree = Append(@, [ident |-> tag_ident, expr |-> expression]),
       !.meta_tree = Append(@, MetaItem("tag", tag_ident, <<>>, None, 0))]

\* type_token = [u8: TRUE and int, or u8: FALSE and name]
add_typecode_meta(g, enum_type, expr, type_token, flags) ==
    IF is_some(expr)
    THEN [flush_meta_buffer(g) EXCEPT
            !.meta_tree = Append(@, MetaItem("type", NoIdent, <<>>,
                                  [expr EXCEPT !.e = enum_type], flags))]
    ELSE IF type_token.u8
    THEN [g EXCEPT !.meta_buffer = Append(@, Run(type_token.int + flags, 1))]
    ELSE [flush_meta_buffer(g) EXCEPT
            !.meta_tree = Append(@, MetaItem("type", NoIdent, <<>>,
                                  Quote(type_token.name, 0), flags))]

\* InType::to_token
to_token(intype) ==
    IF intype \in PointerSized
    THEN [u8 |-> FALSE, int |-> 0, name |-> intype]
    ELSE [u8 |-> TRUE, int |-> InTypeInt(intype), name |-> ""]

U8Token(int) == [u8 |-> TRUE, int |-> int, name |-> ""]

\* A faulty add_field_meta, to show what C18 detects: the out-type byte
\* carries the chain flag whenever it is emitted, tag or no tag.
add_field_meta_chained(g, field) ==
    LET opt == field.option
        has_out == is_some(field.outtype_or_field_count_expr)
                   \/ field.outtype_or_field_count_int # 0
        has_tag == is_some(field.tag)
        inflags == (IF has_out \/ has_tag THEN ChainFlag ELSE 0)
                   + (IF is_slice(opt.strategy) THEN VariableCountFlag ELSE 0)
        g1 == [g EXCEPT !.meta_buffer = @ \o as_bytes(field.name) \o <<Run(0, 1)>>]
        g2 == add_typecode_meta(g1, "InType", field.intype_tokens,
                                to_token(opt.intype), inflags)
        g3 == IF has_out \/ has_tag
              THEN add_typecode_meta(g2, "OutType", field.outtype_or_field_count_expr,
                                     U8Token(field.outtype_or_field_count_int), ChainFlag)
              ELSE g2
    IN IF ~has_metadata(opt.strategy) THEN g
       ELSE IF has_tag THEN add_tag(g3, Ident("_TLG_TAG", g.field_count), field.tag)
       ELSE g3


\* The metadata of one field (lines 279-315).
add_field_meta(g, field) ==
    LET opt == field.option
        has_out == is_some(field.outtype_or_field_count_expr)
                   \/ field.outtype_or_field_count_int # 0
        has_tag == is_some(field.tag)
        inflags == (IF has_out \/ has_tag THEN ChainFlag ELSE 0)
                   + (IF is_slice(opt.strategy) THEN VariableCountFlag ELSE 0)
        outflags == IF has_tag THEN ChainFlag ELSE 0
        g1 == [g EXCEPT !.meta_buffer = @ \o as_bytes(field.name) \o <<Run(0, 1)>>]
        g2 == add_typecode_meta(g1, "InType", field.intype_tokens,
                                to_token(opt.intype), inflags)
        g3 == IF has_out \/ has_tag
              THEN add_typecode_meta(g2, "OutType", field.outtype_or_field_count_expr,
                                     U8Token(field.outtype_or_field_count_int), outflags)
              ELSE g2
    IN IF ~has_metadata(opt.strategy) THEN g
       ELSE IF has_tag THEN add_tag(g3, Ident("_TLG_TAG", g.field_count), field.tag)
       ELSE g3

\* A faulty add_data_desc_for_arg_n, to show what C26 detects: the
\* descriptor refers to the parameter by its position among the parameters
\* of the fields, not by the index of its field.
add_data_desc_for_arg_n_position(g, arg, new_desc) ==
    [g EXCEPT !.data_desc_init_tree =
        Append(@, Desc(new_desc, Len(g.func_args_tree) - Len(FixedArgs) - 1, NoRef))]



add_data_desc_for_arg_n(g, arg, new_desc) ==
    [g EXCEPT !.data_desc_init_tree = Append(@, Desc(new_desc, arg, NoRef))]

\* A faulty add_data_desc_with_length, to show what C6 detects: the payload
\* descriptor is emitted before the descriptor of its length slot.
add_data_desc_with_length_after(g, arg, get_length, new_desc) ==
    LET g1 == [g EXCEPT
                 !.lengths_init_tree = Append(@, [fn |-> get_length, arg |-> arg])]
        g2 == add_data_desc_for_arg_n(g1, arg, new_desc)
    IN [g2 EXCEPT
          !.data_desc_init_tree = Append(@, Desc("length", NoRef, g.lengths_count)),
          !.lengths_count = g.lengths_count + 1]

\* A faulty add_data_desc_with_length, to show what C7 detects: the counter
\* of length slots is not advanced, so every field uses slot 0.
add_data_desc_with_length_slot0(g, arg, get_length, new_desc) ==
    LET g1 == [g EXCEPT
                 !.lengths_init_tree = Append(@, [fn |-> get_length, arg |-> arg]),
                 !.data_desc_init_tree = Append(@, Desc("length", NoRef, g.lengths_count))]
    IN add_data_desc_for_arg_n(g1, arg, new_desc)

add_data_desc_with_length(g, arg, get_length, new_desc) ==
    LET g1 == [g EXCEPT
                 !.lengths_init_tree = Append(@, [fn |-> get_length, arg |-> arg]),
                 !.data_desc_init_tree = Append(@, Desc("length", NoRef, g.lengths_count))]
    IN [add_data_desc_for_arg_n(g1, arg, new_desc) EXCEPT
          !.lengths_count = g.lengths_count + 1]

\* Prototype _tlg_argN: &T or &[T; count]; call site: the value
add_func_scalar_arg(g, arg, field, adapter) ==
    LET opt == field.option IN
    [g EXCEPT
       !.func_args_tree = Append(@, Arg("_tlg_arg", arg,
             IF opt.value_array_count # 0 THEN "array_ref" ELSE "ref",
             opt.value_type, None)),
       !.func_call_tree = Append(@, Arg(adapter, arg,
             IF opt.value_array_count # 0 THEN "array_ref" ELSE "ref",
             opt.value_type, field.value_tokens))]

\* Prototype _tlg_argN: &[T]; call site: AsRef::<[T]>::as_ref(value)
add_func_slice_arg(g, arg, field) ==
    LET opt == field.option IN
    [g EXCEPT
       !.func_args_tree = Append(@, Arg("_tlg_arg", arg,
             IF opt.value_array_count # 0 THEN "array_slice" ELSE "slice",
             opt.value_type, None)),
       !.func_call_tree = Append(@, Arg("as_ref", arg,
             IF opt.value_array_count # 0 THEN "array_slice" ELSE "slice",
             opt.value_type, field.value_tokens))]

\* A faulty CStr branch, to show what C5 detects: the descriptor of the zero
\* terminator is left out.
add_cstr_data_unterminated(g, arg, field) ==
    add_data_desc_for_arg_n(add_func_slice_arg(g, arg, field), arg, "from_cstr")

\* FieldStrategy::CStr (lines 427-448): the payload, then the descriptor of
\* a static zero of the value type
add_cstr_data(g, arg, field) ==
    LET g1 == add_data_desc_for_arg_n(add_func_slice_arg(g, arg, field),
                                      arg, "from_cstr")
    IN [g1 EXCEPT !.data_desc_init_tree =
           Append(@, Desc("zero_terminator", NoRef, NoRef))]

\* The data of one field: the match on the strategy (lines 319-510).
add_field_data(g, field) ==
    LET opt == field.option
        strategy == opt.strategy
        arg == g.field_count
    IN CASE strategy = "Scalar" ->
              add_data_desc_for_arg_n(
                  add_func_scalar_arg(g, arg, field, "identity"), arg, "from_value")
         [] strategy = "Time32" ->
              add_data_desc_for_arg_n(
                  add_func_scalar_arg(g, arg, field, "filetime_from_time32"),
                  arg, "from_value")
         [] strategy = "Time64" ->
              add_data_desc_for_arg_n(
                  add_func_scalar_arg(g, arg, field, "filetime_from_time64"),
                  arg, "from_value")
         [] strategy = "SystemTime" ->
              add_data_desc_for_arg_n(
                  add_func_scalar_arg(g, arg, field, "filetime_from_duration"),
                  arg, "from_value")
         [] strategy \in {"RawData", "RawField", "RawFieldSlice"} ->
              add_data_desc_for_arg_n(add_func_slice_arg(g, arg, field),
                                      arg, "from_counted")
         [] strategy = "Sid" ->
              add_data_desc_for_arg_n(add_func_slice_arg(g, arg, field),
                                      arg, "from_sid")
         [] strategy = "CStr" -> add_cstr_data(g, arg, field)
         [] strategy = "Counted" ->
              add_data_desc_with_length(
                  IF opt.value_array_count = 0
                  THEN add_func_slice_arg(g, arg, field)
                  ELSE add_func_scalar_arg(g, arg, field, "identity"),
                  arg, "counted_size", "from_counted")
         [] strategy = "Slice" ->
              add_data_desc_with_length(add_func_slice_arg(g, arg, field),
                                        arg, "slice_count", "from_slice")
         [] OTHER -> g

add_field(g, field) ==
    [add_field_data(add_field_meta(g, field), field) EXCEPT
       !.field_count = g.field_count + 1]

\* for field in event.fields.iter() { self.add_field(field) }: field_count is
\* the number of fields added so far; add the fields after it, up to field hi,
\* in order (the range is halved to keep the evaluation shallow)
RECURSIVE add_fields_upto(_, _, _)
add_fields_upto(g, fields, hi) ==
    IF g.field_count >= hi THEN g
    ELSE IF g.field_count + 1 = hi THEN add_field(g, fields[hi])
    ELSE add_fields_upto(
             add_fields_upto(g, fields, (g.field_count + hi) \div 2), fields, hi)

add_fields(g, fields) == add_fields_upto(g, fields, Len(fields))

\* _TLG_KEYWORD (lines 221-254): one constant, or one constant per keyword
\* and their bitwise-or
KeywordConsts(keywords) ==
    IF Len(keywords) = 1
    THEN [consts |-> <<>>, keyword |-> <<keywords[1]>>]
    ELSE [consts |-> [i \in 1..Len(keywords) |->
                        [ident |-> Ident("_TLG_KEYWORD_", i - 1), expr |-> keywords[i]]],
          keyword |-> [i \in 1..Len(keywords) |->
                        [k |-> "const", s |-> "_TLG_KEYWORD_", n |-> i - 1,
                         w |-> "", e |-> ""]]]

\* EventGenerator::generate: [g: the generator afterwards, out: the tokens]
generate(g, ev) ==
    LET g0 == [g EXCEPT !.meta_buffer = <<>>, !.field_count = 0, !.lengths_count = 0]
        g1 == [g0 EXCEPT !.meta_tree = Append(@, MetaItem("size", NoIdent, <<>>, None, 0))]
        g2 == add_tag(g1, TLG_TAG, ev.tag)
        g3 == [g2 EXCEPT
                 !.meta_buffer = @ \o as_bytes(ev.name) \o <<Run(0, 1)>>,
                 !.data_desc_init_tree =
                     @ \o <<Desc("provider_meta", NoRef, NoRef),
                            Desc("event_meta", NoRef, NoRef)>>,
                 !.func_args_tree = @ \o FixedArgs,
                 !.func_call_tree = @ \o
                     << Arg(ev.provider_symbol, 0, "fixed", "Provider", None),
                        Arg("meta_as_bytes", 0, "fixed", "[u8]", None),
                        Arg("_TLG_DESC", 0, "fixed", "EventDescriptor", None),
                        Arg("borrow", 0, "fixed", "Option<&[u8; 16]>", ev.activity_id),
                        Arg("borrow", 0, "fixed", "Option<&[u8; 16]>", ev.related_id) >>]
        g4 == flush_meta_buffer(add_fields(g3, ev.fields))
        enabled ==
            [id |-> ev.id_tokens, version |-> ev.version_tokens,
             channel |-> ev.channel_tokens, opcode |-> ev.opcode_tokens,
             task |-> ev.task_tokens,
             tags_tree |-> g4.tags_tree,
             meta_tree |-> g4.meta_tree,
             func_args_tree |-> g4.func_args_tree,
             lengths_count |-> g4.lengths_count,
             lengths_init_tree |-> g4.lengths_init_tree,
             data_desc_init_tree |-> g4.data_desc_init_tree,
             func_call_tree |-> g4.func_call_tree]
        g5 == [g4 EXCEPT !.tags_tree = <<>>, !.meta_tree = <<>>,
                         !.enabled_tree = @ \o <<enabled>>]
    IN [g |-> [g5 EXCEPT !.enabled_tree = <<>>],
        out |-> [keywords |-> KeywordConsts(ev.keywords),
                 level |-> ev.level,
                 provider |-> ev.provider_symbol,
                 enabled_tree |-> g5.enabled_tree]]

\* size_of::<_TlgMeta>(): the struct is packed, its size is the sum of the
\* sizes of its elements
TagExpr(tags_tree, ident) ==
    (CHOOSE i \in 1..Len(tags_tree) : tags_tree[i].ident = ident) 

\* the size of one element of _TlgMeta
MetaItemSize(item, tags_tree) ==
    CASE item.k = "size" -> 2
      [] item.k = "tag" -> tag_size(tags_tree[TagExpr(tags_tree, item.ident)].expr.n)
      [] item.k = "bytes" -> RunsLen(item.bytes)
      [] item.k = "type" -> 1

RECURSIVE MetaSizeRange(_, _, _, _)
MetaSizeRange(meta_tree, tags_tree, lo, hi) ==
    IF lo > hi THEN 0
    ELSE IF lo = hi THEN MetaItemSize(meta_tree[lo], tags_tree)
    ELSE LET mid == (lo + hi) \div 2 IN
         MetaSizeRange(meta_tree, tags_tree, lo, mid)
         + MetaSizeRange(meta_tree, tags_tree, mid + 1, hi)

\* the size in bytes of the _TlgMeta of one enabled_tree element
MetaSize(enabled) ==
    MetaSizeRange(enabled.meta_tree, enabled.tags_tree, 1, Len(enabled.meta_tree))

\* ------------------------------------------------------ event descriptions
\* The inputs of write_event!: [name: the event name, opts: the tokens that
\* follow the event name literal].
RECURSIVE Join(_, _)
Join(opts, sep) ==
    IF opts = <<>> THEN <<>>
    ELSE IF Len(opts) = 1 THEN opts[1]
    ELSE opts[1] \o sep \o Join(Tail(opts), sep)

Rep(atom, n) == [i \in 1..n |-> atom]

\* n copies of the option atom, separated by commas
Repeat(atom, n) ==
    LET m == Len(atom) + 1 IN
    [i \in 1..(IF n = 0 THEN 0 ELSE n * m - 1) |->
        IF (i - 1) % m < Len(atom) THEN atom[((i - 1) % m) + 1] ELSE Comma]

\* name(args)
Option(name, args) == <<Id(name), Paren(args)>>
\* , name(val)
Sub(name, val) == <<Comma, Id(name), Paren(<<val>>)>>
\* kind("x...", &v, extra)
Field(kind, len, extra) == Option(kind, <<Lit("x", len), Comma, Ex("v")>> \o extra)
\* struct("s", extra { body })
Struct(extra, body) == Option("struct", <<Lit("s", 1)>> \o extra \o <<Comma, Brace(body)>>)

U32 == Field("u32", 1, <<>>)
Str8 == Field("str8", 1, <<>>)
U8Hex == Field("u8", 1, Sub("format", Id("Hex")))
RawData == Option("raw_data", <<Ex("v")>>)
EmptyStruct == Struct(<<>>, <<>>)

EventAtoms1 ==
    { Option("id_version", <<Num(1), Comma, Num(2)>>),
      Option("channel", <<Id("TraceLogging")>>),
      Option("level", <<Id("Informational")>>),
      Option("level", <<Num(4)>>),
      Option("opcode", <<Id("Info")>>),
      Option("keyword", <<Num(16)>>) }

EventAtoms2 ==
    { Option("task", <<Num(5)>>),
      Option("tag", <<Num(1)>>),
      Option("activity_id", <<Ex("a")>>),
      Option("related_id", <<Ex("r")>>),
      Option("keyword", <<Ex("KW")>>) }

FieldAtoms ==
    { U32,
      Field("u32", 1, Sub("tag", Num(1))),
      Field("u32", 2, Sub("tag", Num(1)) \o Sub("tag", Num(128))),
      U8Hex,
      Field("u8", 1, Sub("format", Id("Hex")) \o Sub("format", Num(2))),
      Str8,
      Field("cstr8", 1, <<>>),
      Option("raw_data", <<Ex("v")>> \o Sub("tag", Num(1))) }

StructAtoms ==
    { Struct(<<>>, U32),
      EmptyStruct,
      Struct(Sub("tag", Num(1)),
             Join(<<Struct(<<>>, U32), Field("cstr8", 1, <<>>)>>, <<Comma>>)),
      Field("i32_slice", 1, <<>>),
      Option("raw_struct", <<Lit("x", 1), Comma, Num(2)>>),
      Struct(<<>>, Join(<<Option("level", <<Num(4)>>),
                         Option("raw_struct", <<Lit("x", 1), Comma, Num(1)>>),
                         Option("debug", <<>>)>>, <<>>)),
      Field("u32", 1, <<Comma, Brace(U32)>>),
      Option("struct", <<Lit("s", 1)>>) }

SyntaxAtoms ==
    { Option("debug", <<>>),
      Option("bogus", <<>>),
      U32,
      Option("level", <<Num(4)>>),
      <<Id("u32")>>,
      <<Num(7)>> }

\* all lists of at most n atoms of A
Lists(A, n) == UNION {[1..k -> A] : k \in 0..n}

SmallOpts ==
    {Join(l, <<Comma>>) :
        l \in Lists(EventAtoms1, MaxOpts) \cup Lists(EventAtoms2, MaxOpts)
              \cup Lists(FieldAtoms, MaxOpts) \cup Lists(StructAtoms, MaxOpts)}
    \cup {Join(l, sep) \o trail :
            l \in Lists(SyntaxAtoms, MaxOpts), sep \in {<<>>, <<Comma>>},
            trail \in {<<>>, <<Comma>>}}

SmallInputs ==
    {[name |-> Str("E", 1), opts |-> <<Comma>> \o o] : o \in SmallOpts}
    \cup {[name |-> Str("NUL", 1), opts |-> <<>>]}

\* long lists of one kind of field, around the limits on fields and blocks
LongCounts ==
    ((MaxFields \div 2 - 2)..(MaxFields \div 2)) \cup ((MaxFields - 4)..MaxFields)

LongKinds ==
    {U32, Str8, EmptyStruct, RawData, Field("cstr8", 1, Sub("tag", Num(1)))}

LongOpts ==
    {Repeat(f, n) : f \in LongKinds, n \in LongCounts}
    \cup {Struct(<<>>, Repeat(f, n)) \o <<Comma>> \o U32 :
            f \in {U32, EmptyStruct, RawData}, n \in (MaxFields - 4)..MaxFields}
    \cup {Struct(<<>>, Struct(<<>>, Repeat(U32, n)) \o <<Comma>> \o U32) :
            n \in {STRUCT_FIELDS_MAX, STRUCT_FIELDS_MAX + 1}}
    \cup {Repeat(Struct(<<>>, Repeat(U32, FIELDS_MAX)), 2),
          Struct(<<>>, Struct(<<>>, Repeat(U32, MaxFields - 30)) \o <<Comma>>
                       \o Repeat(U32, MaxFields - 30)),
          Struct(<<>>, Repeat(U32, 3 * FIELDS_MAX))}

LongInputs == {[name |-> Str("E", 1), opts |-> <<Comma>> \o o] : o \in LongOpts}

\* long event names, around the limit on the metadata size
MetaAtoms ==
    {U32, U8Hex, Field("u32", 1, Sub("tag", Num(1))), Option("tag", <<Num(1)>>)}

MetaInputs ==
    {[name |-> Str("E", METADATA_BYTES_MAX - 7 - d),
      opts |-> <<Comma>> \o Join(l, <<Comma>>)] :
        d \in 0..12, l \in Lists(MetaAtoms, MaxOpts)}
    \cup {[name |-> Str("E", METADATA_BYTES_MAX - 7 - 3 * n - d),
           opts |-> <<Comma>> \o Repeat(U8Hex, n)] :
            n \in {5, 6}, d \in 0..1}

\* fields with a suboption that their strategy does not accept
SuboptionAtoms ==
    { Option("raw_data", <<Ex("v")>> \o Sub("tag", Num(1))),
      Option("raw_data", <<Ex("v")>> \o Sub("format", Id("Hex"))),
      Struct(Sub("format", Id("Hex")), <<>>),
      Option("raw_struct", <<Lit("x", 1), Comma, Num(2)>> \o Sub("format", Id("Hex"))),
      Option("raw_struct_slice",
             <<Lit("x", 1), Comma, Num(2)>> \o Sub("format", Id("Hex"))),
      U32 }

SuboptionOpts == {Join(l, <<Comma>>) : l \in Lists(SuboptionAtoms, 2)}

SuboptionInputs ==
    {[name |-> Str("E", 1), opts |-> <<Comma>> \o o] : o \in SuboptionOpts}

\* fields whose type codes are literal bytes or deferred values: a
\* pointer-sized in-type, an in-type given as an expression, a format, a
\* built-in out-type, a slice, with and without a tag
TypeAtoms ==
    { Field("isize", 1, <<>>),
      Field("isize", 1, Sub("tag", Num(1))),
      Field("isize", 1, Sub("format", Id("Hex"))),
      Option("raw_meta", <<Lit("x", 1), Comma, Id("U8")>>),
      Field("bool8", 1, <<>>),
      Field("i32_slice", 1, Sub("tag", Num(1))),
      Field("u8", 1, Sub("format", Id("Hex")) \o Sub("tag", Num(1))) }

TypeOpts == {Join(l, <<Comma>>) : l \in Lists(TypeAtoms, 2)}

TypeInputs ==
    {[name |-> Str("E", 1), opts |-> <<Comma>> \o o] : o \in TypeOpts}

\* the options that belong to the event, one of each name, and the raw
\* groups
NestedAtoms ==
    { Option("debug", <<>>),
      Option("id_version", <<Num(1), Comma, Num(2)>>),
      Option("channel", <<Id("TraceLogging")>>),
      Option("level", <<Num(4)>>),
      Option("opcode", <<Id("Info")>>),
      Option("task", <<Num(5)>>),
      Option("keyword", <<Num(16)>>),
      Option("tag", <<Num(1)>>),
      Option("activity_id", <<Ex("a")>>),
      Option("related_id", <<Ex("r")>>),
      Option("raw_struct", <<Lit("x", 1), Comma, Num(1)>>),
      Option("raw_struct_slice", <<Lit("x", 1), Comma, Num(1), Comma, Ex("v")>>) }

\* one of them inside the braces of a struct, first or after a field, with
\* or without a comma after it, after an option given to the event or not
NestedOpts ==
    {pre \o Struct(<<>>, before \o x \o sep \o U32) :
        x \in NestedAtoms,
        pre \in {<<>>} \cup {y \o <<Comma>> :
                                y \in NestedAtoms \ {Option("keyword", <<Num(16)>>)}},
        before \in {<<>>, U32 \o <<Comma>>},
        sep \in {<<>>, <<Comma>>}}

NestedInputs ==
    {[name |-> Str("E", 1), opts |-> <<Comma>> \o o] : o \in NestedOpts}


\* the inputs: the families above
IsInput(in) ==
    in \in SmallInputs \/ in \in LongInputs \/ in \in MetaInputs
    \/ in \in SuboptionInputs \/ in \in TypeInputs \/ in \in NestedInputs

\* ------------------------------------------------------------------ guid.rs
\* A Guid: where it comes from (zero, parsed, name), the hex digit d that a
\* parsed one repeats, and the name that a derived one hashes.
GuidZero == [src |-> "zero", d |-> 0, name |-> Str("", 0)]

\* the hex digits that the identifiers of the inputs repeat
GuidDigits == {1, 2}

GUID_TEXT_LEN == 32

\* the hex digit that the character names
HexDigit(ch) == CASE ch = "1" -> 1 [] ch = "2" -> 2 [] OTHER -> 0

\* Guid::try_parse of a string literal: [ok, val]
try_parse(lit) ==
    IF lit.n = GUID_TEXT_LEN /\ HexDigit(lit.s) \in GuidDigits
    THEN [ok |-> TRUE,
          val |-> [src |-> "parsed", d |-> HexDigit(lit.s), name |-> Str("", 0)]]
    ELSE [ok |-> FALSE, val |-> GuidZero]

\* Guid::from_name
from_name(name) == [src |-> "name", d |-> 0, name |-> name]

GUID_BYTES == 16

\* Guid::to_bytes_le: a parsed identifier of digit d has the byte 0xdd 16 times
to_bytes_le(guid) == [i \in 1..GUID_BYTES |-> 17 * guid.d]

\* --------------------------------------------------------- provider_info.rs
PROVIDER_NAME_MAX == 32768

MsgProviderNameLen == "provider name.len() must be less than 32KB"
MsgProviderNameNul == "provider name must not contain NUL"
MsgIdSet == "id already set"
MsgGroupIdSet == "group_id already set"
MsgGroupNameSet == "group_name already set"
MsgGroupNameChars ==
    "group_name must contain only lowercase ASCII letters and ASCII digits"
MsgExpectedIdOrGroupId == "expected id(GUID) or group_id(GUID)"
MsgExpectedGuid == "expected GUID"

\* The state of ProviderInfo::try_from_tokens:
\*   prov   : the ProviderInfo under construction
\*   root_parser, prov_id_set, group_name_set : its locals
\*   errors : the Errors aggregate
\*   pc     : define, prov_options, prov_finish, prov_done
\*   result : what try_from_tokens returned
ProviderInfo0(name) ==
    [symbol |-> "PROV", name |-> name, id |-> GuidZero,
     group_id |-> [some |-> FALSE, val |-> GuidZero]]

SomeGuid(guid) == [some |-> TRUE, val |-> guid]

\* a syn error leaves try_from_tokens through the ? operator
ProvAbort(Q, msg) == [Q EXCEPT !.pc = "prov_done", !.result = Err(<<msg>>)]

ProvError(Q, msg) == [Q EXCEPT !.errors = Append(@, msg)]

\* A faulty try_from_tokens, to show what C22 detects: a name of exactly
\* 32768 bytes passes the check of the length.
try_from_tokens_begin_lenient(in) ==
    LET Q0 == [prov |-> ProviderInfo0(in.name),
               root_parser |-> eat_comma_opt(in.opts),
               prov_id_set |-> FALSE, group_name_set |-> FALSE,
               errors |-> <<>>, pc |-> "prov_options", result |-> Err(<<>>)]
        Q1 == IF StrLen(in.name) > PROVIDER_NAME_MAX
              THEN ProvError(Q0, MsgProviderNameLen) ELSE Q0
    IN IF ContainsNul(in.name) THEN ProvError(Q1, MsgProviderNameNul) ELSE Q1


\* try_from_tokens up to its loop (lines 26-62).
\* in = [name: the provider name literal, opts: the tokens after it]
try_from_tokens_begin(in) ==
    LET Q0 == [prov |-> ProviderInfo0(in.name),
               root_parser |-> eat_comma_opt(in.opts),
               prov_id_set |-> FALSE, group_name_set |-> FALSE,
               errors |-> <<>>, pc |-> "prov_options", result |-> Err(<<>>)]
        Q1 == IF StrLen(in.name) >= PROVIDER_NAME_MAX
              THEN ProvError(Q0, MsgProviderNameLen) ELSE Q0
    IN IF ContainsNul(in.name) THEN ProvError(Q1, MsgProviderNameNul) ELSE Q1

\* the characters of a group name that are lowercase letters or digits
GroupNameChars == {"g", "7"}

\* group_name("name") (lines 83-103)
group_name_option(Q, option_args_parser) ==
    LET Q1 == IF Q.group_name_set THEN ProvError(Q, MsgGroupNameSet) ELSE Q IN
    IF option_args_parser = <<>> \/ option_args_parser[1].t # "lit"
    THEN ProvAbort(Q1, MsgExpectedLit)
    ELSE LET lit == option_args_parser[1]
             Q2 == IF lit.n > 0 /\ lit.s \notin GroupNameChars
                   THEN ProvError(Q1, MsgGroupNameChars) ELSE Q1
         IN [Q2 EXCEPT !.group_name_set = lit.n > 0]

\* id("GUID") and group_id("GUID") (lines 73-82 and 114-122)
guid_option(Q, option_name, option_args_parser) ==
    LET is_id == option_name = "id"
        Q1 == IF is_id
              THEN [(IF Q.prov_id_set THEN ProvError(Q, MsgIdSet) ELSE Q)
                       EXCEPT !.prov_id_set = TRUE]
              ELSE [(IF Q.prov.group_id.some THEN ProvError(Q, MsgGroupIdSet) ELSE Q)
                       EXCEPT !.prov.group_id = SomeGuid(GuidZero)]
    IN IF option_args_parser = <<>> \/ option_args_parser[1].t # "lit"
       THEN ProvAbort(Q1, MsgExpectedLit)
       ELSE LET id_val == try_parse(option_args_parser[1]) IN
            IF ~id_val.ok
            THEN ProvError(Q1, MsgExpectedGuid)
            ELSE IF is_id
            THEN [Q1 EXCEPT !.prov.id = id_val.val]
            ELSE [Q1 EXCEPT !.prov.group_id = SomeGuid(id_val.val)]

\* What the next iteration of the loop of try_from_tokens meets.
ProvStepKind(Q) ==
    LET arg == next_arg(Q.root_parser, FALSE) IN
    IF arg.k = "Err" THEN "SyntaxError"
    ELSE IF arg.k # "Option" THEN "Return"
    ELSE IF arg.ident = "debug" THEN "Debug"
    ELSE IF arg.ident \in {"id", "group_id", "groupid"} THEN "Guid"
    ELSE IF arg.ident \in {"group_name", "groupname"} THEN "GroupName"
    ELSE "Unrecognized"

\* One iteration of the loop of try_from_tokens (lines 64-123), or its end
\* when next_arg returns anything but an option.
try_from_tokens_option(Q) ==
    LET arg == next_arg(Q.root_parser, FALSE)
        Q1 == [Q EXCEPT !.root_parser = arg.rest]
    IN IF arg.k = "Err" THEN ProvAbort(Q, arg.err)
       ELSE IF arg.k # "Option" THEN [Q1 EXCEPT !.pc = "prov_finish"]
       ELSE IF arg.ident = "debug" THEN Q1
       ELSE IF arg.ident = "id" THEN guid_option(Q1, "id", arg.inner)
       ELSE IF arg.ident \in {"group_id", "groupid"}
       THEN guid_option(Q1, "group_id", arg.inner)
       ELSE IF arg.ident \in {"group_name", "groupname"}
       THEN group_name_option(Q1, arg.inner)
       ELSE ProvError(Q1, MsgExpectedIdOrGroupId)

\* try_from_tokens after its loop (lines 125-130)
try_from_tokens_finish(Q) ==
    [Q EXCEPT !.prov.id = IF Q.prov_id_set THEN @ ELSE from_name(Q.prov.name),
              !.result = check(Q.errors),
              !.pc = "prov_done"]


\* A faulty generate, to show what C20 detects: the size is stored before
\* the group trait block is appended.
provider_generate_early_size(prov) ==
    LET body == as_bytes(prov.name) \o <<Run(0, 1)>>
        len == 2 + RunsLen(body)
    IN [symbol |-> prov.symbol,
        meta |-> <<Run(len % 256, 1), Run((len \div 256) % 256, 1)>> \o body
                 \o (IF prov.group_id.some
                     THEN <<Run(19, 1), Run(0, 1), Run(1, 1)>>
                          \o [i \in 1..GUID_BYTES |-> Run(to_bytes_le(prov.group_id.val)[i], 1)]
                     ELSE <<>>),
        id |-> prov.id]


\* A faulty generate, to show what C21 detects: the NUL that ends the name
\* is not appended.
provider_generate_unterminated(prov) ==
    LET body == as_bytes(prov.name)
                \o (IF prov.group_id.some
                    THEN <<Run(19, 1), Run(0, 1), Run(1, 1)>>
                         \o [i \in 1..GUID_BYTES |->
                                Run(to_bytes_le(prov.group_id.val)[i], 1)]
                    ELSE <<>>)
        len == 2 + RunsLen(body)
    IN [symbol |-> prov.symbol,
        meta |-> <<Run(len % 256, 1), Run((len \div 256) % 256, 1)>> \o body,
        id |-> prov.id]


\* ---------------------------------------------------- provider_generator.rs
\* ProviderGenerator::generate: the static of the provider, with the bytes
\* of its metadata and its identifier
provider_generate(prov) ==
    LET body == as_bytes(prov.name) \o <<Run(0, 1)>>
                \o (IF prov.group_id.some
                    THEN <<Run(19, 1), Run(0, 1), Run(1, 1)>>
                         \o [i \in 1..GUID_BYTES |->
                                Run(to_bytes_le(prov.group_id.val)[i], 1)]
                    ELSE <<>>)
        len == 2 + RunsLen(body)
    IN [symbol |-> prov.symbol,
        meta |-> <<Run(len % 256, 1), Run((len \div 256) % 256, 1)>> \o body,
        id |-> prov.id]

\* --------------------------------------------------------- provider inputs
ProviderAtoms ==
    { Option("id", <<Lit("1", GUID_TEXT_LEN)>>),
      Option("group_id", <<Lit("2", GUID_TEXT_LEN)>>),
      Option("groupid", <<Lit("z", 3)>>),
      Option("group_name", <<Lit("g", 2)>>),
      Option("groupname", <<Lit("G", 2)>>),
      Option("debug", <<>>),
      Option("bogus", <<>>),
      Option("id", <<>>),
      <<Num(7)>> }

ProviderOpts ==
    {Join(l, <<Comma>>) \o trail :
        l \in Lists(ProviderAtoms, MaxOpts - 1), trail \in {<<>>, <<Comma>>}}

\* names around the limit on the length, and options one at a time
ProviderNames ==
    {Str("P", n) : n \in (PROVIDER_NAME_MAX - 2)..(PROVIDER_NAME_MAX + 1)}
    \cup {Str("NUL", 1), Str("NUL", PROVIDER_NAME_MAX)}

IsProviderInput(in) ==
    \/ in \in {[name |-> Str("P", 1), opts |-> <<Comma>> \o o] : o \in ProviderOpts}
    \/ in \in {[name |-> n, opts |-> <<Comma>> \o Join(l, <<Comma>>)] :
                 n \in ProviderNames, l \in Lists(ProviderAtoms, 1)}
    \/ in = [name |-> Str("P", 1), opts |-> <<>>]
    \/ in = [name |-> Str("P", 1), opts |-> <<Comma, Brace(<<>>), Comma>> \o Option("bogus", <<>>)]


\* ------------------------------------------- the block that generate emits
\* What an evaluation of the emitted block does, as the list of its events:
\*   enabled  : the call of enabled(_TLG_LEVEL, _TLG_KEYWORD), n its result
\*   arg      : operand n of the call of _tlg_write is evaluated; arg is the
\*              N of the _tlg_argN that it is bound to (NoRef: a fixed one)
\*   enter    : _tlg_write is entered
\*   length   : slot n of _tlg_lengths is computed from _tlg_arg arg
\*   desc     : element n of the descriptor array is constructed; it refers
\*              to _tlg_arg arg or to slot idx of _tlg_lengths
\*   transport: provider_write_transfer is called
\*   return   : _tlg_write returns n, the status of the transport
\*   drop     : the operands of the call of _tlg_write are dropped
Ev(e, n, arg, idx) == [e |-> e, n |-> n, arg |-> arg, idx |-> idx]

\* no evaluation yet
NotRun == [trace |-> <<>>, value |-> NoRef]

\* the statuses that the transport returns in the model
Statuses == {0, 5}

\* A faulty gate, to show what C30 detects: the operands of the call of
\* _tlg_write are evaluated before the provider is asked.
block_disabled_eager(out) ==
    [trace |-> [i \in 1..Len(out.enabled_tree[1].func_call_tree) |->
                  Ev("arg", i,
                     IF out.enabled_tree[1].func_call_tree[i].shape = "fixed"
                     THEN NoRef
                     ELSE out.enabled_tree[1].func_call_tree[i].n, NoRef)]
               \o <<Ev("enabled", 0, NoRef, NoRef)>>,
     value |-> 0]


\* if !provider.enabled(_TLG_LEVEL, _TLG_KEYWORD) { 0 } (lines 259-263)
block_disabled(out) ==
    [trace |-> <<Ev("enabled", 0, NoRef, NoRef)>>, value |-> 0]

\* else { ... _tlg_write(func_call_tree) } (lines 166-205, 263-265): the
\* operands of the call are evaluated from left to right, then the function
\* is entered
call_tlg_write(enabled) ==
    [trace |-> <<Ev("enabled", 1, NoRef, NoRef)>>
               \o [i \in 1..Len(enabled.func_call_tree) |->
                     Ev("arg", i,
                        IF enabled.func_call_tree[i].shape = "fixed" THEN NoRef
                        ELSE enabled.func_call_tree[i].n, NoRef)]
               \o <<Ev("enter", 0, NoRef, NoRef)>>,
     value |-> NoRef]

\* A faulty body of _tlg_write, to show what C24 detects: the descriptor
\* array is constructed before _tlg_lengths is.
tlg_write_body_descs_first(r, enabled) ==
    [r EXCEPT !.trace = @
        \o [k \in 1..Len(enabled.data_desc_init_tree) |->
              Ev("desc", k, enabled.data_desc_init_tree[k].arg,
                 enabled.data_desc_init_tree[k].idx)]
        \o [j \in 1..Len(enabled.lengths_init_tree) |->
              Ev("length", j - 1, enabled.lengths_init_tree[j].arg, NoRef)]]


\* the body of _tlg_write up to the call of the transport (lines 191-200):
\* the let of _tlg_lengths, element by element, then the operands of
\* provider_write_transfer, the last of them the descriptor array, element
\* by element
tlg_write_body(r, enabled) ==
    [r EXCEPT !.trace = @
        \o [j \in 1..Len(enabled.lengths_init_tree) |->
              Ev("length", j - 1, enabled.lengths_init_tree[j].arg, NoRef)]
        \o [k \in 1..Len(enabled.data_desc_init_tree) |->
              Ev("desc", k, enabled.data_desc_init_tree[k].arg,
                 enabled.data_desc_init_tree[k].idx)]]

\* provider_write_transfer(...) is called and returns status, which is the
\* value of _tlg_write(...) and of the block; the operands of _tlg_write
\* live to the end of the statement
provider_write_transfer(r, status) ==
    [trace |-> r.trace \o <<Ev("transport", 0, NoRef, NoRef),
                            Ev("return", status, NoRef, NoRef),
                            Ev("drop", 0, NoRef, NoRef)>>,
     value |-> status]

\* ---------------------------------------------------------- state machine
VARIABLES
    input,      \* the macro input being compiled
    event,      \* EventInfo
    errors,     \* Errors
    stack,      \* the active calls of parse_event_options
    pc,         \* start, options, finish, done, generated
    result,     \* the syn::Result of EventInfo::parse or of try_from_tokens
    generator,  \* EventGenerator
    output,     \* the token streams returned by generate, in order
    provider,   \* ProviderInfo and the locals of try_from_tokens
    run         \* one evaluation of the emitted block: its events and value

vars == <<input, event, errors, stack, pc, result, generator, output, provider,
          run>>

Cur == [event |-> event, errors |-> errors, stack |-> stack, pc |-> pc,
        result |-> result]

Apply(P) ==
    /\ event' = P.event
    /\ errors' = P.errors
    /\ stack' = P.stack
    /\ pc' = P.pc
    /\ result' = P.result
    /\ UNCHANGED <<input, generator, output, provider, run>>

\* the state of try_from_tokens, with the shared errors, pc and result
CurProvider ==
    [prov |-> provider.prov, root_parser |-> provider.root_parser,
     prov_id_set |-> provider.prov_id_set,
     group_name_set |-> provider.group_name_set,
     errors |-> errors, pc |-> pc, result |-> result]

ApplyProvider(Q) ==
    /\ provider' = [prov |-> Q.prov, root_parser |-> Q.root_parser,
                    prov_id_set |-> Q.prov_id_set,
                    group_name_set |-> Q.group_name_set]
    /\ errors' = Q.errors
    /\ pc' = Q.pc
    /\ result' = Q.result
    /\ UNCHANGED <<input, event, stack, generator, output, run>>

\* the macro invoked is write_event! (start) or define_provider! (define)
Init ==
    /\ \/ IsInput(input) /\ pc = "start"
       \/ IsProviderInput(input) /\ pc = "define"
    /\ event = EventInfo0(Str("", 0))
    /\ errors = <<>>
    /\ stack = <<>>
    /\ result = Err(<<>>)
    /\ generator = NewGenerator
    /\ output = <<>>
    /\ provider = [prov |-> ProviderInfo0(Str("", 0)), root_parser |-> <<>>,
                   prov_id_set |-> FALSE, group_name_set |-> FALSE]
    /\ run = NotRun

\* write_event! is invoked: EventInfo::parse starts
Begin == pc = "start" /\ Apply(parse_begin(input))

InOptions(kind) == pc = "options" /\ StepKind(Cur) = kind

ParseField == InOptions("Field") /\ Apply(parse_event_options(Cur))

ParseEventOption == InOptions("EventOption") /\ Apply(parse_event_options(Cur))

SkipDebug == InOptions("Debug") /\ Apply(parse_event_options(Cur))

UnrecognizedOption == InOptions("Unrecognized") /\ Apply(parse_event_options(Cur))

MissingGroup == InOptions("NoGroup") /\ Apply(parse_event_options(Cur))

SyntaxError == InOptions("BadIdent") /\ Apply(parse_event_options(Cur))

LeaveStruct ==
    InOptions("Return") /\ Len(stack) > 1 /\ Apply(parse_event_options(Cur))

EndOptions ==
    InOptions("Return") /\ Len(stack) = 1 /\ Apply(parse_event_options(Cur))

Finish == pc = "finish" /\ Apply(parse_finish(Cur))

\* write_event!: EventGenerator::new(..).generate(event_info) on success
Generate ==
    /\ pc = "done"
    /\ result.ok
    /\ LET r == generate(generator, event) IN
         /\ generator' = r.g
         /\ output' = Append(output, r.out)
    /\ pc' = "generated"
    /\ UNCHANGED <<input, event, errors, stack, result, provider, run>>

\* define_provider! is invoked: ProviderInfo::try_from_tokens starts
BeginProvider == pc = "define" /\ ApplyProvider(try_from_tokens_begin(input))

InProviderOptions(kind) == pc = "prov_options" /\ ProvStepKind(CurProvider) = kind

ProviderGuid ==
    InProviderOptions("Guid") /\ ApplyProvider(try_from_tokens_option(CurProvider))

ProviderGroupName ==
    InProviderOptions("GroupName")
    /\ ApplyProvider(try_from_tokens_option(CurProvider))

ProviderDebug ==
    InProviderOptions("Debug") /\ ApplyProvider(try_from_tokens_option(CurProvider))

ProviderUnrecognized ==
    InProviderOptions("Unrecognized")
    /\ ApplyProvider(try_from_tokens_option(CurProvider))

ProviderSyntaxError ==
    InProviderOptions("SyntaxError")
    /\ ApplyProvider(try_from_tokens_option(CurProvider))

ProviderEndOptions ==
    InProviderOptions("Return") /\ ApplyProvider(try_from_tokens_option(CurProvider))

FinishProvider ==
    pc = "prov_finish" /\ ApplyProvider(try_from_tokens_finish(CurProvider))

\* define_provider!: ProviderGenerator::generate(prov) on success
GenerateProvider ==
    /\ pc = "prov_done"
    /\ result.ok
    /\ output' = Append(output, provider_generate(provider.prov))
    /\ pc' = "prov_generated"
    /\ UNCHANGED <<input, event, errors, stack, result, generator, provider, run>>

\* generate is called once more on the same generator, for the same event
GenerateAgain ==
    /\ pc = "generated"
    /\ LET r == generate(generator, event) IN
         /\ generator' = r.g
         /\ output' = Append(output, r.out)
    /\ pc' = "regenerated"
    /\ UNCHANGED <<input, event, errors, stack, result, provider, run>>

\* the emitted block is evaluated and the provider is not enabled
RunDisabled ==
    /\ pc = "generated"
    /\ run' = block_disabled(output[Len(output)])
    /\ pc' = "skipped"
    /\ UNCHANGED <<input, event, errors, stack, result, generator, output, provider>>

\* the emitted block is evaluated and the provider is enabled: _tlg_write
\* is called
RunEnabled ==
    /\ pc = "generated"
    /\ run' = call_tlg_write(output[Len(output)].enabled_tree[1])
    /\ pc' = "entered"
    /\ UNCHANGED <<input, event, errors, stack, result, generator, output, provider>>

\* _tlg_write computes the lengths and constructs the descriptors
RunBody ==
    /\ pc = "entered"
    /\ run' = tlg_write_body(run, output[Len(output)].enabled_tree[1])
    /\ pc' = "ready"
    /\ UNCHANGED <<input, event, errors, stack, result, generator, output, provider>>

\* the transport is called and _tlg_write returns its status
RunTransport ==
    /\ pc = "ready"
    /\ \E status \in Statuses : run' = provider_write_transfer(run, status)
    /\ pc' = "returned"
    /\ UNCHANGED <<input, event, errors, stack, result, generator, output, provider>>

Next ==
    \/ Begin
    \/ ParseField
    \/ ParseEventOption
    \/ SkipDebug
    \/ UnrecognizedOption
    \/ MissingGroup
    \/ SyntaxError
    \/ LeaveStruct
    \/ EndOptions
    \/ Finish
    \/ Generate
    \/ BeginProvider
    \/ ProviderGuid
    \/ ProviderGroupName
    \/ ProviderDebug
    \/ ProviderUnrecognized
    \/ ProviderSyntaxError
    \/ ProviderEndOptions
    \/ FinishProvider
    \/ GenerateProvider
    \/ GenerateAgain
    \/ RunDisabled
    \/ RunEnabled
    \/ RunBody
    \/ RunTransport

Spec == Init /\ [][Next]_vars

\* -------------------------------------------------------------- properties
\* how many times the diagnostic msg was recorded
Count(errs, msg) == Cardinality({i \in 1..Len(errs) : errs[i] = msg})

\* the sum of s[lo..hi], for a sequence of numbers s
RECURSIVE SumRange(_, _, _)
SumRange(s, lo, hi) ==
    IF lo > hi THEN 0
    ELSE IF lo = hi THEN s[lo]
    ELSE LET mid == (lo + hi) \div 2 IN
         SumRange(s, lo, mid) + SumRange(s, mid + 1, hi)

\* the layout that generate emitted last
Layout == output[Len(output)].enabled_tree[1]

\* C1: generate is never run on an event whose metadata block is larger than
\* 65535 bytes: whenever a layout was emitted, the size of its _TlgMeta (the
\* 2-byte size element, the event tag, the event name and NUL, and for each
\* field with metadata its name, NUL, in-type byte, optional out-type byte
\* and optional tag) fits the u16 size element.  The code violates it.
C1_LayoutFitsMetadataMax ==
    pc = "generated" => MetaSize(Layout) <= METADATA_BYTES_MAX

\* the parse accepted an event and the layout emitted for it is too large
C1_OversizedLayoutEmitted ==
    /\ pc = "generated"
    /\ result.ok
    /\ MsgMetadata \notin {errors[i] : i \in 1..Len(errors)}
    /\ MetaSize(Layout) > METADATA_BYTES_MAX

\* C2: at every moment of the parse, push_field has recorded exactly one
\* field-count diagnostic when more than 128 fields were pushed (at top level
\* or nested in groups, however many beyond the cap) and none when 128 or
\* fewer were pushed.
C2_OneFieldCountDiagnostic ==
    Count(errors, MsgFields) = IF Len(event.fields) > FIELDS_MAX THEN 1 ELSE 0

\* an event of at least two fields beyond the cap, some of them nested, was
\* parsed to its end and holds the one diagnostic
C2_BeyondCapParsed ==
    /\ pc = "done"
    /\ Len(event.fields) >= FIELDS_MAX + 2
    /\ \E i \in 1..Len(event.fields) : Strategy(event.fields[i]) = "Struct"
    /\ Count(errors, MsgFields) = 1
    /\ result.errs = errors

\* the blocks of data of the fields pushed so far: the two reserved blocks
\* and data_count blocks for each field
Blocks(fields) ==
    2 + SumRange([i \in 1..Len(fields) |-> data_count(Strategy(fields[i]))],
                 1, Len(fields))

\* the counters and diagnostics that do not belong to the block counter
OtherChecks(P) ==
    [metadata |-> P.event.estimated_metadata_bytes_used,
     fields |-> Len(P.event.fields),
     too_large |-> Count(P.errors, MsgMetadata),
     too_many |-> Count(P.errors, MsgFields)]

\* C3, the counter: data_desc_used is 2 plus the data_count of every pushed
\* field as long as that total is at most 128, and then no block diagnostic
\* is recorded; once the total exceeds 128 the counter is 0 (frozen) and
\* exactly one block diagnostic is recorded, whatever is pushed later.
C3_BlockCounter ==
    LET total == Blocks(event.fields) IN
    /\ event.data_desc_used = IF total > DATA_DESC_MAX THEN 0 ELSE total
    /\ Count(errors, MsgBlocks) = IF total > DATA_DESC_MAX THEN 1 ELSE 0

\* C3, independence: a step of the parser does to the metadata counter, the
\* field list and their diagnostics what it would do with the block counter
\* not frozen.
C3_OthersIndependent ==
    pc = "options" =>
        OtherChecks(parse_event_options(Cur))
          = OtherChecks(parse_event_options(
                [Cur EXCEPT !.event.data_desc_used = 2]))

\* C3: the data-block counter starts at 2, grows by the data_count of each
\* pushed field, accepts a total of exactly 128, records exactly one block
\* diagnostic at the first field that exceeds 128 and none afterwards, while
\* the metadata-size and field-count checks keep reporting.
C3_BlockLimitReportedOnce == C3_BlockCounter /\ C3_OthersIndependent

\* the block counter froze and, later in the same parse, the field-count
\* check reported
C3_FrozenThenFieldCount ==
    /\ pc = "done"
    /\ event.data_desc_used = 0
    /\ \E i, j \in 1..Len(errors) :
          i < j /\ errors[i] = MsgBlocks /\ errors[j] = MsgFields
    /\ Count(errors, MsgBlocks) = 1


\* the diagnostics recorded, as a set
Recorded == {errors[i] : i \in 1..Len(errors)}

\* name is a field kind of the catalog that has metadata
IsMetaField(name) ==
    \E i \in 1..Len(FIELD_OPTIONS) :
        FIELD_OPTIONS[i].option_name = name /\ has_metadata(FIELD_OPTIONS[i].strategy)

\* the metadata-bearing fields written directly in the group body
GroupFields(body) ==
    Cardinality({i \in 1..(Len(body) - 1) :
                    /\ body[i].t = "ident"
                    /\ body[i + 1].t \in {"paren", "brace"}
                    /\ IsMetaField(body[i].s)})

\* The nested groups written in toks, to any depth, that directly hold more
\* than 127 metadata-bearing fields.  A nested group is a pair of braces among
\* the arguments of an option (in_args); the group that follows an option
\* name holds its arguments.
RECURSIVE OverfullGroups(_, _)
OverfullGroups(toks, in_args) ==
    SumRange([i \in 1..Len(toks) |->
                 IF toks[i].t \notin {"paren", "brace"} THEN 0
                 ELSE IF ~in_args THEN OverfullGroups(toks[i].c, TRUE)
                 ELSE IF toks[i].t = "paren" THEN 0
                 ELSE (IF GroupFields(toks[i].c) > STRUCT_FIELDS_MAX THEN 1 ELSE 0)
                      + OverfullGroups(toks[i].c, FALSE)],
             1, Len(toks))

DescriptorsOf(strategy) ==
    CASE strategy \in {"Counted", "Slice"} -> 2
      [] strategy = "CStr" -> 1 + 1
      [] strategy \in {"Scalar", "SystemTime", "Time32", "Time64", "Sid",
                       "RawData", "RawField", "RawFieldSlice"} -> 1
      [] OTHER -> 0

\* C5: the layout emitted for a validated event holds 2 descriptors, plus 1
\* for each fixed field, 2 for each variable-length field and 1 more for the
\* terminator of each CStr field; that number is the data-block counter of
\* the parser, which is not frozen.
C5_DescriptorCount ==
    pc = "generated" =>
        /\ Len(Layout.data_desc_init_tree)
             = 2 + SumRange([i \in 1..Len(event.fields) |->
                                DescriptorsOf(Strategy(event.fields[i]))],
                            1, Len(event.fields))
        /\ event.data_desc_used # 0
        /\ Len(Layout.data_desc_init_tree) = event.data_desc_used

\* the strategies of the fields of the event
Strategies == {Strategy(event.fields[i]) : i \in 1..Len(event.fields)}

\* a layout was emitted for an event with a fixed field, a variable-length
\* field, a CStr field and a field without data
C5_MixedLayoutEmitted ==
    /\ pc = "generated"
    /\ {"Scalar", "Counted", "CStr"} \subseteq Strategies
       \/ {"Slice", "CStr", "Struct"} \subseteq Strategies
    /\ Len(Layout.data_desc_init_tree) > 2 + Len(event.fields)

\* what a descriptor refers to: the provider metadata, the event metadata,
\* a length slot, a zero terminator, or the payload of a field
Role(desc) ==
    CASE desc.k = "provider_meta" -> "provider"
      [] desc.k = "event_meta" -> "event"
      [] desc.k = "length" -> "length"
      [] desc.k = "zero_terminator" -> "terminator"
      [] OTHER -> "payload"

\* the descriptors of the layout as pairs of a role and a field
Roles(descs) == [i \in 1..Len(descs) |-> <<Role(descs[i]), descs[i].arg>>]

\* the descriptors of field number arg, in the order the claim states
FieldRoles(strategy, arg) ==
    CASE strategy \in {"Counted", "Slice"} ->
              << <<"length", NoRef>>, <<"payload", arg>> >>
      [] strategy = "CStr" ->
              << <<"payload", arg>>, <<"terminator", NoRef>> >>
      [] DescriptorsOf(strategy) = 1 -> << <<"payload", arg>> >>
      [] OTHER -> <<>>

\* the descriptors of fields[lo..hi] in declaration order
RECURSIVE FieldsRoles(_, _, _)
FieldsRoles(fields, lo, hi) ==
    IF lo > hi THEN <<>>
    ELSE IF lo = hi THEN FieldRoles(Strategy(fields[lo]), lo - 1)
    ELSE LET mid == (lo + hi) \div 2
         IN FieldsRoles(fields, lo, mid) \o FieldsRoles(fields, mid + 1, hi)

\* C6: the descriptor list of an emitted layout is the provider metadata,
\* the event metadata, then the descriptors of the fields in declaration
\* order; the descriptor of a length slot immediately precedes the payload
\* of its Counted or Slice field, the zero terminator immediately follows
\* the payload of its CStr field, and nothing is interleaved.
C6_DescriptorOrder ==
    pc = "generated" =>
        Roles(Layout.data_desc_init_tree)
          = << <<"provider", NoRef>>, <<"event", NoRef>> >>
              \o FieldsRoles(event.fields, 1, Len(event.fields))

\* a layout was emitted in which a CStr field, with its terminator, comes
\* before a Counted or Slice field, with its length slot
C6_TerminatorThenLengthEmitted ==
    /\ pc = "generated"
    /\ \E i \in 1..(Len(Layout.data_desc_init_tree) - 1) :
           /\ Layout.data_desc_init_tree[i].k = "zero_terminator"
           /\ Layout.data_desc_init_tree[i + 1].k = "length"

\* the members of lo..hi that flags selects, in increasing order
RECURSIVE Selected(_, _, _)
Selected(flags, lo, hi) ==
    IF lo > hi THEN <<>>
    ELSE IF lo = hi THEN (IF flags[lo] THEN <<lo>> ELSE <<>>)
    ELSE LET mid == (lo + hi) \div 2
         IN Selected(flags, lo, mid) \o Selected(flags, mid + 1, hi)

\* the positions of the Counted and Slice fields of the event
LengthFields ==
    Selected([i \in 1..Len(event.fields) |->
                 Strategy(event.fields[i]) \in {"Counted", "Slice"}],
             1, Len(event.fields))

\* the positions of the length descriptors of the layout
LengthDescs ==
    Selected([i \in 1..Len(Layout.data_desc_init_tree) |->
                 Layout.data_desc_init_tree[i].k = "length"],
             1, Len(Layout.data_desc_init_tree))

\* C7: in an emitted layout the lengths array has one slot per Counted or
\* Slice field and no other; the k-th such field (from 0) has its length
\* expression at position k of the initializer, and its length descriptor,
\* the one before its payload, references slot k.
C7_OneLengthSlotPerField ==
    pc = "generated" =>
        /\ Layout.lengths_count = Len(LengthFields)
        /\ Len(Layout.lengths_init_tree) = Len(LengthFields)
        /\ Len(LengthDescs) = Len(LengthFields)
        /\ \A k \in 1..Len(LengthFields) :
              LET field == event.fields[LengthFields[k]]
                  at == LengthDescs[k]
              IN /\ Layout.lengths_init_tree[k].arg = LengthFields[k] - 1
                 /\ Layout.lengths_init_tree[k].fn
                      = (IF Strategy(field) = "Counted"
                         THEN "counted_size" ELSE "slice_count")
                 /\ Layout.data_desc_init_tree[at].idx = k - 1
                 /\ Layout.data_desc_init_tree[at].idx < Layout.lengths_count
                 /\ Layout.data_desc_init_tree[at + 1].arg = LengthFields[k] - 1

\* a layout was emitted with two length slots whose fields are separated
\* by a field that has none
C7_TwoSlotsEmitted ==
    /\ pc = "generated"
    /\ Layout.lengths_count = 2
    /\ Len(Layout.lengths_init_tree) = 2
    /\ Layout.lengths_init_tree[2].arg > Layout.lengths_init_tree[1].arg + 1

\* the option list of the input, after the comma that follows the event name
OptionTokens == IF input.opts = <<>> THEN <<>> ELSE Tail(input.opts)

\* toks is a list of options name(...) or name{...}, separated by commas
CommaSeparated(toks) ==
    /\ toks # <<>> => Len(toks) % 3 = 2
    /\ \A i \in 1..Len(toks) :
          toks[i].t \in (CASE i % 3 = 1 -> {"ident"}
                           [] i % 3 = 2 -> {"paren", "brace"}
                           [] OTHER -> {"comma"})

\* the options of toks that have the name
Occurrences(toks, name) ==
    Selected([i \in 1..Len(toks) |->
                 /\ toks[i].t = "ident"
                 /\ toks[i].s = name
                 /\ i < Len(toks)
                 /\ toks[i + 1].t \in {"paren", "brace"}],
             1, Len(toks))

\* the names that are neither a field kind nor an event option
UnknownNames ==
    {OptionTokens[i].s : i \in {j \in 1..Len(OptionTokens) : OptionTokens[j].t = "ident"}}
       \ (EventOptionNames \cup {FIELD_OPTIONS[i].option_name : i \in 1..Len(FIELD_OPTIONS)})

\* how many options of the list have an unknown name
Unknowns ==
    Cardinality({i \in 1..Len(OptionTokens) :
                    /\ OptionTokens[i].t = "ident"
                    /\ OptionTokens[i].s \in UnknownNames})

\* C8: when a comma-separated option list has options of unknown names (and
\* no debug option), each records one unrecognized-option diagnostic, the
\* options after it are still parsed, and the failure that parse returns
\* contains those diagnostics.
C8_UnrecognizedSkipped ==
    pc = "done" /\ CommaSeparated(OptionTokens) /\ Unknowns > 0
                /\ Occurrences(OptionTokens, "debug") = <<>> =>
        /\ ~result.ok
        /\ Count(result.errs, MsgUnrecognized) = Unknowns

\* parse has recorded the diagnostic of an unknown option that a comma
\* follows, and has returned only a syntax error
C8_DiagnosticLost ==
    /\ pc = "done"
    /\ CommaSeparated(OptionTokens)
    /\ Unknowns = 1
    /\ Occurrences(OptionTokens, "debug") = <<>>
    /\ errors = <<MsgUnrecognized>>
    /\ result = Err(<<MsgExpectedIdent>>)

\* toks without its debug options and the comma after each
RECURSIVE StripDebug(_)
StripDebug(toks) ==
    IF toks = <<>> THEN <<>>
    ELSE IF Len(toks) >= 2 /\ toks[1].t = "ident" /\ toks[1].s = "debug"
            /\ toks[2].t = "paren"
    THEN StripDebug(eat_comma_opt(SubSeq(toks, 3, Len(toks))))
    ELSE <<toks[1]>> \o StripDebug(Tail(toks))

\* EventInfo::parse run to its end
RECURSIVE RunParse(_)
RunParse(P) ==
    IF P.pc = "done" THEN P
    ELSE IF P.pc = "finish" THEN parse_finish(P)
    ELSE RunParse(parse_event_options(P))

\* C9: a comma-separated top-level option list with debug options (and no
\* option of an unknown name) parses to the result of the list without them:
\* the same event, or the same diagnostics.
C9_DebugIsNoOp ==
    pc = "done" /\ CommaSeparated(OptionTokens) /\ Unknowns = 0
                /\ Occurrences(OptionTokens, "debug") # <<>> =>
        LET without == RunParse(parse_begin(
                          [input EXCEPT !.opts = <<Comma>> \o StripDebug(OptionTokens)]))
        IN /\ result = without.result
           /\ result.ok => event = without.event

\* parse has failed on the comma after a debug option, in a list that parses
\* without the debug option
C9_DebugBreaksList ==
    /\ pc = "done"
    /\ CommaSeparated(OptionTokens)
    /\ Occurrences(OptionTokens, "debug") # <<>>
    /\ Unknowns = 0
    /\ result = Err(<<MsgExpectedIdent>>)
    /\ RunParse(parse_begin(
           [input EXCEPT !.opts = <<Comma>> \o StripDebug(OptionTokens)])).result.ok

\* how many times the suboption name is given again on one field, over the
\* fields of toks and of the groups in them
RECURSIVE Repeats(_, _)
Repeats(toks, name) ==
    SumRange([i \in 1..Len(toks) |->
                 IF toks[i].t = "paren"
                 THEN (IF Len(Occurrences(toks[i].c, name)) > 1
                       THEN Len(Occurrences(toks[i].c, name)) - 1 ELSE 0)
                      + Repeats(toks[i].c, name)
                 ELSE IF toks[i].t = "brace" THEN Repeats(toks[i].c, name)
                 ELSE 0],
             1, Len(toks))

\* the diagnostics that name must have recorded: one for each top-level
\* occurrence after the first, and one for each repeat on a field
Duplicates(name) ==
    LET k == IF name \in SingleValued
             THEN Len(Occurrences(OptionTokens, name)) ELSE 0
    IN (IF k >= 1 THEN k - 1 ELSE 0)
       + (IF name \in {"tag", "format"} THEN Repeats(OptionTokens, name) ELSE 0)

\* the values of the keyword options, in declaration order
Keywords ==
    LET at == Occurrences(OptionTokens, "keyword")
    IN [j \in 1..Len(at) |-> ParseExpr(OptionTokens[at[j] + 1].c).val]

\* C10: when the option list has been parsed to its end, each single-valued
\* option that occurs k >= 1 times at top level has recorded k - 1 already-set
\* diagnostics, a tag or format given twice on a field has recorded one, and
\* the keyword options have recorded none and are all kept, in order.
C10_AlreadySetPerRepeat ==
    pc = "finish" /\ MsgExpectedGroup \notin Recorded =>
        /\ \A name \in SingleValued \cup {"format"} :
              Count(errors, AlreadySet(name)) = Duplicates(name)
        /\ event.keywords = Keywords
        /\ Occurrences(OptionTokens, "keyword") # <<>> =>
              Len(errors) = SumRange(
                  [i \in 1..Len(errors) |->
                      IF \E name \in SingleValued : errors[i] = AlreadySet(name)
                      THEN 1 ELSE 0], 1, Len(errors))

\* an option list with the same single-valued option three times was parsed
\* to its end
C10_ThreeTimesSet ==
    /\ pc = "finish"
    /\ Len(Occurrences(OptionTokens, "level")) = 3
    /\ errors = <<AlreadySet("level"), AlreadySet("level")>>

\* the fields of the event that have a tag
TaggedFields == {i \in 1..Len(event.fields) : is_some(event.fields[i].tag)}

\* the estimate of the metadata size when n of the tagged fields are
\* accounted with their tag: the size element and the event tag, the event
\* name, and per field the name, the in-type, the out-type when there is one
\* or a tag is accounted, and 4 bytes of tag
EstimateWithTags(n) ==
    2 + 4 + StrLen(event.name) + 1
    + SumRange([i \in 1..Len(event.fields) |->
                   StrLen(event.fields[i].name) + 1 + 1
                   + (IF i \notin TaggedFields
                         /\ event.fields[i].outtype_or_field_count_int # 0
                      THEN 1 ELSE 0)],
               1, Len(event.fields))
    + (1 + 4) * n

\* an option list was parsed to its end, in which at least two fields, none
\* of them a struct, have one tag each and the event has at most one
SeveralTaggedFields ==
    /\ pc = "finish"
    /\ MsgExpectedGroup \notin Recorded
    /\ Cardinality(TaggedFields) >= 2
    /\ Repeats(OptionTokens, "tag") = 0
    /\ Len(Occurrences(OptionTokens, "tag")) <= 1
    /\ "Struct" \notin Strategies
    /\ event.estimated_metadata_bytes_used # 0

\* C11 as stated: when two fields both declare a tag, the second is reported
\* as a duplicate and the estimate accounts for the first tag only.
C11_SecondTagIsDuplicate ==
    SeveralTaggedFields /\ Cardinality(TaggedFields) = 2 =>
        /\ Count(errors, AlreadySet("tag")) = 1
        /\ event.estimated_metadata_bytes_used = EstimateWithTags(1)

\* C11: when several fields declare a tag each, none is reported as a
\* duplicate, every one of them keeps its tag, and the estimate accounts for
\* the tag of each.
C11_TagIsPerField ==
    SeveralTaggedFields =>
        /\ Count(errors, AlreadySet("tag")) = 0
        /\ event.estimated_metadata_bytes_used
             = EstimateWithTags(Cardinality(TaggedFields))

\* two fields of one event were parsed with a tag each
C11_TwoTaggedFieldsParsed ==
    /\ SeveralTaggedFields
    /\ Len(event.fields) = 2
    /\ TaggedFields = {1, 2}
    /\ errors = <<>>

\* the value that the only option of the name gives, None without the option
Given(name) ==
    LET at == Occurrences(OptionTokens, name)
    IN IF at = <<>> THEN None ELSE ParseExpr(OptionTokens[at[1] + 1].c).val

\* the version that the id_version option gives, None without the option
GivenVersion ==
    LET at == Occurrences(OptionTokens, "id_version")
    IN IF at = <<>> THEN None
       ELSE ParseExpr(Tail(ParseExpr(OptionTokens[at[1] + 1].c).rest)).val

\* the value of a slot: the one given, or else the default
Filled(given, default) == IF given = None THEN default ELSE given

\* the optional slots of the event hold no value yet that no option gave
NoDefaultYet ==
    /\ \A name \in SingleValued :
          Slot(event, name).k = "quote" => Given(name).k = "quote"
    /\ is_none(event.id_tokens) <=> is_none(event.version_tokens)
    /\ Len(event.keywords) <= Len(Keywords)

\* C12: the model that parse returns has every optional slot filled, with
\* the value of its option or else with its default (id 0, version 0,
\* channel TraceLogging, level Verbose, opcode Info, task 0, tag 0), and its
\* keywords are the ones given or else the single keyword 1; activity_id and
\* related_id, which have no default, are as given; no default is in place
\* while the options are parsed, and the generator leaves the model as parse
\* returned it.
C12_SlotsFilledOnce ==
    /\ pc \in {"options", "finish"} => NoDefaultYet
    /\ pc \in {"done", "generated"} /\ result.ok =>
          /\ event.id_tokens = Filled(Given("id_version"), Quote("0u16", 0))
          /\ event.version_tokens = Filled(GivenVersion, Quote("0u8", 0))
          /\ event.channel_tokens
               = Filled(filter_enum_tokens(Given("channel"), "Channel", CHANNEL_ENUMS),
                        Quote("::tracelogging::Channel::TraceLogging", 0))
          /\ event.level
               = Filled(filter_enum_tokens(Given("level"), "Level", LEVEL_ENUMS),
                        Quote("::tracelogging::Level::Verbose", 0))
          /\ event.opcode_tokens
               = Filled(filter_enum_tokens(Given("opcode"), "Opcode", OPCODE_ENUMS),
                        Quote("::tracelogging::Opcode::Info", 0))
          /\ event.task_tokens = Filled(Given("task"), Quote("0u16", 0))
          /\ event.tag = Filled(Given("tag"), Quote("0", 0))
          /\ event.keywords
               = (IF Keywords = <<>> THEN <<Quote("1", 1)>> ELSE Keywords)
          /\ \A name \in SingleValued \ {"activity_id", "related_id"} :
                is_some(Slot(event, name))
          /\ event.activity_id = Given("activity_id")
          /\ event.related_id = Given("related_id")

\* parse returned a model for an event with a level, an opcode and a keyword
\* given by options and its other slots left to their defaults
C12_SomeSetSomeDefault ==
    /\ pc = "done"
    /\ result.ok
    /\ Len(Occurrences(OptionTokens, "level")) = 1
    /\ Len(Occurrences(OptionTokens, "opcode")) = 1
    /\ Len(Keywords) = 1
    /\ event.task_tokens = Quote("0u16", 0)
    /\ event.level # Quote("::tracelogging::Level::Verbose", 0)

\* EventInfo::parse or ProviderInfo::try_from_tokens has returned
Returned == pc \in {"done", "generated", "prov_done", "prov_generated"}

C14_NoDiagnosticLost ==
    Returned /\ ~result.ok =>
        /\ Len(result.errs) >= Len(errors)
        /\ \A i \in 1..Len(errors) : result.errs[i] = errors[i]

\* try_from_tokens recorded diagnostics, then met an option without its
\* string literal and returned that syntax error alone
C14_RecordedThenSyntaxError ==
    /\ pc = "prov_done"
    /\ errors # <<>>
    /\ MsgExpectedLit \notin {errors[i] : i \in 1..Len(errors)}
    /\ result = Err(<<MsgExpectedLit>>)

\* how many suboptions of the options of toks their field does not accept:
\* tag on raw_data, format on struct, raw_struct, raw_struct_slice, raw_data
Refused(toks) ==
    SumRange([i \in 1..Len(toks) |->
                 IF toks[i].t # "paren" THEN 0
                 ELSE (IF toks[i - 1].s = "raw_data"
                       THEN Len(Occurrences(toks[i].c, "tag")) ELSE 0)
                      + (IF toks[i - 1].s \in {"struct", "raw_struct",
                                               "raw_struct_slice", "raw_data"}
                         THEN Len(Occurrences(toks[i].c, "format")) ELSE 0)],
             1, Len(toks))

\* C15: in a list of fields of which some have a suboption that their
\* strategy does not accept, each such suboption records one
\* unrecognized-option diagnostic and nothing else: no field gets a tag or a
\* format from it, every field of the list is pushed, and parse returns the
\* diagnostics recorded.
C15_RefusedSuboptionSkipped ==
    pc = "done" /\ input \in SuboptionInputs /\ Refused(OptionTokens) > 0 =>
        /\ errors = [i \in 1..Refused(OptionTokens) |-> MsgUnrecognized]
        /\ result = Err(errors)
        /\ Len(event.fields) = (Len(OptionTokens) + 1) \div 3
        /\ \A i \in 1..Len(event.fields) :
              /\ is_none(event.fields[i].tag)
              /\ event.fields[i].outtype_or_field_count_expr.k \in {"none", "int"}

\* parse met a format suboption after the field count of a raw_struct and
\* returned a syntax error, with no field pushed
C15_RawStructSuboptionFails ==
    /\ pc = "done"
    /\ input \in SuboptionInputs
    /\ Len(Occurrences(OptionTokens, "raw_struct")) = 1
    /\ Len(OptionTokens) = 2
    /\ event.fields = <<>>
    /\ errors = <<>>
    /\ result = Err(<<MsgExpectedOption>>)

\* a top-level field of toks that is no struct has a braced group
BraceOnOtherField(toks) ==
    \E i \in 2..Len(toks) :
        /\ toks[i].t = "paren"
        /\ toks[i - 1].t = "ident"
        /\ toks[i - 1].s # "struct"
        /\ \E j \in 1..Len(toks[i].c) : toks[i].c[j].t = "brace"

\* C16: once the options are parsed, the out-type value of a field that is
\* no struct is the one of its catalog entry, never a count of children, and
\* a list in which
\* such a field has a braced group has recorded a diagnostic when it has
\* been parsed to its end.
C16_OnlyStructOwnsFields ==
    /\ pc \in {"finish", "done", "generated"} =>
          \A i \in 1..Len(event.fields) :
              Strategy(event.fields[i]) # "Struct" =>
                  event.fields[i].outtype_or_field_count_int
                    = OutTypeInt(event.fields[i].option.outtype)
    /\ pc = "finish" /\ BraceOnOtherField(OptionTokens) => errors # <<>>

\* parse returned a model in which a u32 field has a braced group with one
\* field, and 1 as its out-type value
C16_ScalarOwnsField ==
    /\ pc = "done"
    /\ result.ok
    /\ BraceOnOtherField(OptionTokens)
    /\ Len(event.fields) = 2
    /\ Strategy(event.fields[1]) = "Scalar"
    /\ OutTypeInt(event.fields[1].option.outtype) = 0
    /\ event.fields[1].outtype_or_field_count_int = 1

\* the concatenation of seqs[lo..hi], for a sequence of sequences
RECURSIVE ConcatRange(_, _, _)
ConcatRange(seqs, lo, hi) ==
    IF lo > hi THEN <<>>
    ELSE IF lo = hi THEN seqs[lo]
    ELSE LET mid == (lo + hi) \div 2
         IN ConcatRange(seqs, lo, mid) \o ConcatRange(seqs, mid + 1, hi)

\* the braced groups among the arguments args of a field
Braces(args) == Selected([j \in 1..Len(args) |-> args[j].t = "brace"], 1, Len(args))

\* The fields that the options toks declare, each followed by the fields of
\* its braces: the name of the option and, for a field with braces, the
\* number of metadata-bearing fields directly inside them (NoRef without
\* braces).
RECURSIVE DeclaredFields(_)
DeclaredFields(toks) ==
    ConcatRange(
        [i \in 1..Len(toks) |->
            IF i < Len(toks) /\ toks[i].t = "ident"
               /\ toks[i + 1].t \in {"paren", "brace"}
               /\ FieldOptionIndex(toks[i].s) # 0
            THEN LET args == toks[i + 1].c IN
                 IF Braces(args) = <<>>
                 THEN <<[name |-> toks[i].s, count |-> NoRef]>>
                 ELSE LET body == args[Braces(args)[1]].c
                      IN <<[name |-> toks[i].s, count |-> GroupFields(body)]>>
                         \o DeclaredFields(body)
            ELSE <<>>],
        1, Len(toks))

Literal(r) == [k |-> "lit", b |-> r.b, n |-> r.n, expr |-> None, flags |-> 0]
Deferred(k, expr, flags) == [k |-> k, b |-> 0, n |-> 0, expr |-> expr, flags |-> flags]

\* the elements that one element of meta_tree stands for
ItemStream(item, tags_tree) ==
    CASE item.k = "bytes" -> [i \in 1..Len(item.bytes) |-> Literal(item.bytes[i])]
      [] item.k = "tag" ->
             <<Deferred("tag", tags_tree[TagExpr(tags_tree, item.ident)].expr, 0)>>
      [] item.k = "type" -> <<Deferred("type", item.expr, item.flags)>>
      [] item.k = "size" -> <<Deferred("size", None, 0)>>

\* the metadata stream of an emitted layout
MetaStream(enabled) ==
    ConcatRange([i \in 1..Len(enabled.meta_tree) |->
                    ItemStream(enabled.meta_tree[i], enabled.tags_tree)],
                1, Len(enabled.meta_tree))

\* a field has an out-type byte when it has an explicit out-type expression,
\* a non-zero out-type or field count, or a tag
HasOutByte(field) ==
    \/ is_some(field.outtype_or_field_count_expr)
    \/ field.outtype_or_field_count_int # 0
    \/ is_some(field.tag)

\* a type code: the deferred value of an expression or of a pointer-sized
\* in-type, else the literal byte of the code with the flags
TypeCode(expr, enum_type, name, int, flags) ==
    IF is_some(expr) THEN Deferred("type", [expr EXCEPT !.e = enum_type], flags)
    ELSE IF name \in PointerSized THEN Deferred("type", Quote(name, 0), flags)
    ELSE Literal(Run(int + flags, 1))

\* the metadata that the claim gives a field
FieldStream(field) ==
    IF ~has_metadata(Strategy(field)) THEN <<>>
    ELSE [j \in 1..Len(as_bytes(field.name)) |-> Literal(as_bytes(field.name)[j])]
         \o <<Literal(Run(0, 1))>>
         \o <<TypeCode(field.intype_tokens, "InType", field.option.intype,
                       InTypeInt(field.option.intype),
                       (IF HasOutByte(field) THEN 128 ELSE 0)
                       + (IF is_slice(Strategy(field)) THEN VariableCountFlag ELSE 0))>>
         \o (IF HasOutByte(field)
             THEN <<TypeCode(field.outtype_or_field_count_expr, "OutType", "",
                             field.outtype_or_field_count_int,
                             IF is_some(field.tag) THEN 128 ELSE 0)>>
             ELSE <<>>)
         \o (IF is_some(field.tag) THEN <<Deferred("tag", field.tag, 0)>> ELSE <<>>)

\* the metadata that precedes the fields: size, event tag, event name, NUL
HeaderStream ==
    <<Deferred("size", None, 0), Deferred("tag", event.tag, 0)>>
    \o [j \in 1..Len(as_bytes(event.name)) |-> Literal(as_bytes(event.name)[j])] \o <<Literal(Run(0, 1))>>

\* C18: the metadata of an emitted layout is the header followed, for each
\* field in declaration order, by: nothing when the strategy has no metadata,
\* else the name bytes, NUL, the in-type byte, an out-type byte exactly when
\* the field has an out-type expression, a non-zero out-type or field count,
\* or a tag, and the tag bytes exactly when it has a tag; the in-type byte
\* carries 0x80 iff an out-type byte follows and the variable-count flag iff
\* the strategy is a slice strategy, the out-type byte carries 0x80 iff tag
\* bytes follow.
C18_FieldMetadataLayout ==
    pc = "generated" =>
        MetaStream(Layout)
          = HeaderStream
            \o ConcatRange([i \in 1..Len(event.fields) |-> FieldStream(event.fields[i])],
                           1, Len(event.fields))

\* a layout was emitted for a field with an out-type byte and no tag and a
\* tagged slice field, whose in-type byte carries both flags
C18_EveryShapeEmitted ==
    /\ pc = "generated"
    /\ \E i \in 1..Len(event.fields) :
          HasOutByte(event.fields[i]) /\ ~is_some(event.fields[i].tag)
    /\ \E i \in 1..Len(event.fields) :
          is_some(event.fields[i].tag) /\ is_slice(Strategy(event.fields[i]))
    /\ \E j \in 1..Len(MetaStream(Layout)) :
          MetaStream(Layout)[j] = Literal(Run(InTypeInt("I32") + 128 + 64, 1))

\* ----------------------------------------------------------------- C19
\* the chunks of the emitted layout: a chunk is literal (a byte run) or one
\* deferred value (size, tag or type code)
Chunks == Layout.meta_tree
IsLiteralChunk(item) == item.k = "bytes"

\* the metadata in the order in which generate produces it: the header,
\* then the metadata of each field in declaration order
ProducedStream ==
    HeaderStream
    \o ConcatRange([i \in 1..Len(event.fields) |-> FieldStream(event.fields[i])],
                   1, Len(event.fields))

\* C19 as stated: the chunks of an emitted layout strictly alternate between
\* a literal byte run and one deferred value, and their concatenation is the
\* metadata in the order produced.  The code violates the alternation: a
\* flush of an empty buffer appends no chunk, so two deferred values can be
\* neighbours (the size element and the event tag always are).
C19_ChunksStrictlyAlternate ==
    pc = "generated" =>
        /\ \A i \in 1..(Len(Chunks) - 1) :
              IsLiteralChunk(Chunks[i]) # IsLiteralChunk(Chunks[i + 1])
        /\ MetaStream(Layout) = ProducedStream

\* C19, amended: the literal buffer is flushed before every deferred value is
\* appended and a flush of an empty buffer appends nothing, so no literal
\* chunk is empty, no two literal chunks are neighbours (deferred values may
\* be), the last produced bytes are flushed too, and the concatenation of
\* the chunks is the metadata in exactly the order it was produced.
C19_FlushPreservesOrder ==
    pc = "generated" =>
        /\ \A i \in 1..Len(Chunks) :
              IsLiteralChunk(Chunks[i]) => Chunks[i].bytes # <<>>
        /\ \A i \in 1..(Len(Chunks) - 1) :
              ~(IsLiteralChunk(Chunks[i]) /\ IsLiteralChunk(Chunks[i + 1]))
        /\ MetaStream(Layout) = ProducedStream
        /\ MetaSize(Layout)
             = SumRange([i \in 1..Len(ProducedStream) |->
                            CASE ProducedStream[i].k = "lit" -> ProducedStream[i].n
                              [] ProducedStream[i].k = "size" -> 2
                              [] ProducedStream[i].k = "tag" ->
                                     tag_size(ProducedStream[i].expr.n)
                              [] OTHER -> 1],
                        1, Len(ProducedStream))

\* a layout was emitted in which two deferred type codes are neighbours and a
\* literal chunk of several bytes lies between two deferred values
C19_DeferredNeighbours ==
    /\ pc = "generated"
    /\ \E i \in 1..(Len(Chunks) - 1) :
          Chunks[i].k = "type" /\ Chunks[i + 1].k = "type"
    /\ \E i \in 2..(Len(Chunks) - 1) :
          /\ IsLiteralChunk(Chunks[i]) /\ RunsLen(Chunks[i].bytes) > 1
          /\ ~IsLiteralChunk(Chunks[i - 1]) /\ ~IsLiteralChunk(Chunks[i + 1])

\* ----------------------------------------------------------------- C20
\* the provider description gives a group identifier
GroupIdGiven ==
    Occurrences(OptionTokens, "group_id") \o Occurrences(OptionTokens, "groupid") # <<>>

\* the provider metadata emitted last
ProviderMeta == output[Len(output)].meta

\* the length that the claim gives the block
ProviderBlockLen == 2 + input.name.n + 1 + (IF GroupIdGiven THEN 19 ELSE 0)

\* C20: the metadata block generated for an accepted provider description is
\* the u16 size, the name bytes, NUL and then the group trait block 19, 0, 1
\* and the 16 bytes of the group identifier exactly when a group_id was
\* given; the size, little-endian in the first 2 bytes, is the length of the
\* whole block, 2 + len(name) + 1 + (19 with a group_id), and is less than
\* 65536.
C20_ProviderMetadataBlock ==
    pc = "prov_generated" =>
        /\ ProviderBlockLen < 65536
        /\ RunsLen(ProviderMeta) = ProviderBlockLen
        /\ ProviderMeta[1] = Run(ProviderBlockLen % 256, 1)
        /\ ProviderMeta[2] = Run(ProviderBlockLen \div 256, 1)
        /\ SubSeq(ProviderMeta, 3, 3 + Len(as_bytes(input.name)))
             = as_bytes(input.name) \o <<Run(0, 1)>>
        /\ SubSeq(ProviderMeta, 4 + Len(as_bytes(input.name)), Len(ProviderMeta))
             = IF GroupIdGiven
               THEN <<Run(19, 1), Run(0, 1), Run(1, 1)>>
                    \o [i \in 1..16 |->
                          Run(to_bytes_le(provider.prov.group_id.val)[i], 1)]
               ELSE <<>>
        /\ GroupIdGiven => provider.prov.group_id.val.src = "parsed"

\* the block of a provider with a name of the greatest accepted length and a
\* group identifier was generated: its size needs both bytes of the prefix
C20_LongestNameWithGroup ==
    /\ pc = "prov_generated"
    /\ input.name.n = PROVIDER_NAME_MAX - 1
    /\ GroupIdGiven
    /\ ProviderMeta[2].b = 128
    /\ RunsLen(ProviderMeta) = PROVIDER_NAME_MAX + 21

\* ----------------------------------------------------------------- C21
\* A reader of a provider block: the size from the 2-byte prefix, the name up
\* to the first NUL, then a trait block when bytes within the size remain:
\* its 2-byte size, its type and the 16 bytes of the identifier.
\* [ok, size, name, has_group, trait_type, group, consumed]
DecodeProvider(meta) ==
    LET size == meta[1].b + 256 * meta[2].b
        nuls == {j \in 3..Len(meta) : meta[j].b = 0}
        nul == CHOOSE j \in nuls : \A k \in nuls : j <= k
        name == SubSeq(meta, 3, nul - 1)
        after_name == 2 + RunsLen(name) + 1
        trait == SubSeq(meta, nul + 1, Len(meta))
        has_group == after_name < size
        trait_ok == Len(trait) >= 3 + GUID_BYTES
        trait_size == trait[1].b + 256 * trait[2].b
    IN IF Len(meta) < 2 \/ nuls = {} \/ (has_group /\ ~trait_ok)
       THEN [ok |-> FALSE, size |-> 0, name |-> <<>>, has_group |-> FALSE,
             trait_type |-> 0, group |-> <<>>, consumed |-> 0]
       ELSE [ok |-> TRUE, size |-> size, name |-> name, has_group |-> has_group,
             trait_type |-> IF has_group THEN trait[3].b ELSE 0,
             group |-> IF has_group
                       THEN [i \in 1..GUID_BYTES |-> trait[3 + i].b] ELSE <<>>,
             consumed |-> after_name + (IF has_group THEN trait_size ELSE 0)]

\* the identifier that 16 little-endian bytes stand for
GuidOfBytes(bytes) ==
    IF \A i \in 1..Len(bytes) : bytes[i] = bytes[1] /\ bytes[1] % 17 = 0
    THEN [src |-> "parsed", d |-> bytes[1] \div 17, name |-> Str("", 0)]
    ELSE GuidZero

\* the string literal of the group identifier of the provider description
GivenGroupId ==
    LET at == Occurrences(OptionTokens, "group_id") \o Occurrences(OptionTokens, "groupid")
    IN OptionTokens[at[1] + 1].c[1]

ProviderNameChecked == pc \in {"prov_options", "prov_finish", "prov_done", "prov_generated"}

\* C22: once the name of a provider was checked, the diagnostic of the
\* length is recorded (once) exactly when the name has 32768 bytes or more,
\* the diagnostic of NUL exactly when the name contains a NUL, each whatever
\* the other; the name of the model is the name as given, never shortened;
\* and for a name with either fault the parse returns no model and no block
\* is generated.
C22_ProviderNameChecks ==
    ProviderNameChecked =>
        /\ Count(errors, MsgProviderNameLen)
             = (IF input.name.n >= 32768 THEN 1 ELSE 0)
        /\ Count(errors, MsgProviderNameNul)
             = (IF input.name.ch = "NUL" /\ input.name.n > 0 THEN 1 ELSE 0)
        /\ provider.prov.name = input.name
        /\ (input.name.n >= 32768 \/ input.name.ch = "NUL") =>
              /\ pc # "prov_generated"
              /\ pc = "prov_done" => ~result.ok
              /\ output = <<>>

\* the parse of a name that is both too long and has a NUL ended: both
\* diagnostics are recorded and are the failure returned
C22_BothFaultsRecorded ==
    /\ pc = "prov_done"
    /\ input.name = Str("NUL", PROVIDER_NAME_MAX)
    /\ errors = <<MsgProviderNameLen, MsgProviderNameNul>>
    /\ result = Err(errors)

\* ----------------------------------------------------------------- C23
\* The names that are looked up, beside the names of the tables: names that
\* are in no table, some of them a prefix or an extension of a name that is.
LookupProbes ==
    {"", "a", "bogus", "debug", "u32x", "U", "xml", "zzz", "Hex3", "bool", "DC_", "tag", "u", "Xml_"}

\* str.as_bytes() of a name: its UTF-8 bytes
NameBytes(name) ==
    CASE name = "binary" -> <<98, 105, 110, 97, 114, 121>>
      [] name = "binaryc" -> <<98, 105, 110, 97, 114, 121, 99>>
      [] name = "bool32" -> <<98, 111, 111, 108, 51, 50>>
      [] name = "bool32_slice" -> <<98, 111, 111, 108, 51, 50, 95, 115, 108, 105, 99, 101>>
      [] name = "bool8" -> <<98, 111, 111, 108, 56>>
      [] name = "bool8_slice" -> <<98, 111, 111, 108, 56, 95, 115, 108, 105, 99, 101>>
      [] name = "char16" -> <<99, 104, 97, 114, 49, 54>>
      [] name = "char16_slice" -> <<99, 104, 97, 114, 49, 54, 95, 115, 108, 105, 99, 101>>
      [] name = "char8_cp1252" -> <<99, 104, 97, 114, 56, 95, 99, 112, 49, 50, 53, 50>>
      [] name = "char8_cp1252_slice" -> <<99, 104, 97, 114, 56, 95, 99, 112, 49, 50, 53, 50, 95, 115, 108, 105, 99, 101>>
      [] name = "codepointer" -> <<99, 111, 100, 101, 112, 111, 105, 110, 116, 101, 114>>
      [] name = "codepointer_slice" -> <<99, 111, 100, 101, 112, 111, 105, 110, 116, 101, 114, 95, 115, 108, 105, 99, 101>>
      [] name = "cstr16" -> <<99, 115, 116, 114, 49, 54>>
      [] name = "cstr16_json" -> <<99, 115, 116, 114, 49, 54, 95, 106, 115, 111, 110>>
      [] name = "cstr16_xml" -> <<99, 115, 116, 114, 49, 54, 95, 120, 109, 108>>
      [] name = "cstr8" -> <<99, 115, 116, 114, 56>>
      [] name = "cstr8_cp1252" -> <<99, 115, 116, 114, 56, 95, 99, 112, 49, 50, 53, 50>>
      [] name = "cstr8_json" -> <<99, 115, 116, 114, 56, 95, 106, 115, 111, 110>>
      [] name = "cstr8_xml" -> <<99, 115, 116, 114, 56, 95, 120, 109, 108>>
      [] name = "errno" -> <<101, 114, 114, 110, 111>>
      [] name = "errno_slice" -> <<101, 114, 114, 110, 111, 95, 115, 108, 105, 99, 101>>
      [] name = "f32" -> <<102, 51, 50>>
      [] name = "f32_slice" -> <<102, 51, 50, 95, 115, 108, 105, 99, 101>>
      [] name = "f64" -> <<102, 54, 52>>
      [] name = "f64_slice" -> <<102, 54, 52, 95, 115, 108, 105, 99, 101>>
      [] name = "guid" -> <<103, 117, 105, 100>>
      [] name = "guid_slice" -> <<103, 117, 105, 100, 95, 115, 108, 105, 99, 101>>
      [] name = "hresult" -> <<104, 114, 101, 115, 117, 108, 116>>
      [] name = "hresult_slice" -> <<104, 114, 101, 115, 117, 108, 116, 95, 115, 108, 105, 99, 101>>
      [] name = "i16" -> <<105, 49, 54>>
      [] name = "i16_hex" -> <<105, 49, 54, 95, 104, 101, 120>>
      [] name = "i16_hex_slice" -> <<105, 49, 54, 95, 104, 101, 120, 95, 115, 108, 105, 99, 101>>
      [] name = "i16_slice" -> <<105, 49, 54, 95, 115, 108, 105, 99, 101>>
      [] name = "i32" -> <<105, 51, 50>>
      [] name = "i32_hex" -> <<105, 51, 50, 95, 104, 101, 120>>
      [] name = "i32_hex_slice" -> <<105, 51, 50, 95, 104, 101, 120, 95, 115, 108, 105, 99, 101>>
      [] name = "i32_slice" -> <<105, 51, 50, 95, 115, 108, 105, 99, 101>>
      [] name = "i64" -> <<105, 54, 52>>
      [] name = "i64_hex" -> <<105, 54, 52, 95, 104, 101, 120>>
      [] name = "i64_hex_slice" -> <<105, 54, 52, 95, 104, 101, 120, 95, 115, 108, 105, 99, 101>>
      [] name = "i64_slice" -> <<105, 54, 52, 95, 115, 108, 105, 99, 101>>
      [] name = "i8" -> <<105, 56>>
      [] name = "i8_hex" -> <<105, 56, 95, 104, 101, 120>>
      [] name = "i8_hex_slice" -> <<105, 56, 95, 104, 101, 120, 95, 115, 108, 105, 99, 101>>
      [] name = "i8_slice" -> <<105, 56, 95, 115, 108, 105, 99, 101>>
      [] name = "ipv4" -> <<105, 112, 118, 52>>
      [] name = "ipv4_slice" -> <<105, 112, 118, 52, 95, 115, 108, 105, 99, 101>>
      [] name = "ipv6" -> <<105, 112, 118, 54>>
      [] name = "ipv6c" -> <<105, 112, 118, 54, 99>>
      [] name = "isize" -> <<105, 115, 105, 122, 101>>
      [] name = "isize_hex" -> <<105, 115, 105, 122, 101, 95, 104, 101, 120>>
      [] name = "isize_hex_slice" -> <<105, 115, 105, 122, 101, 95, 104, 101, 120, 95, 115, 108, 105, 99, 101>>
      [] name = "isize_slice" -> <<105, 115, 105, 122, 101, 95, 115, 108, 105, 99, 101>>
      [] name = "pid" -> <<112, 105, 100>>
      [] name = "pid_slice" -> <<112, 105, 100, 95, 115, 108, 105, 99, 101>>
      [] name = "pointer" -> <<112, 111, 105, 110, 116, 101, 114>>
      [] name = "pointer_slice" -> <<112, 111, 105, 110, 116, 101, 114, 95, 115, 108, 105, 99, 101>>
      [] name = "port" -> <<112, 111, 114, 116>>
      [] name = "port_slice" -> <<112, 111, 114, 116, 95, 115, 108, 105, 99, 101>>
      [] name = "raw_data" -> <<114, 97, 119, 95, 100, 97, 116, 97>>
      [] name = "raw_field" -> <<114, 97, 119, 95, 102, 105, 101, 108, 100>>
      [] name = "raw_field_slice" -> <<114, 97, 119, 95, 102, 105, 101, 108, 100, 95, 115, 108, 105, 99, 101>>
      [] name = "raw_meta" -> <<114, 97, 119, 95, 109, 101, 116, 97>>
      [] name = "raw_meta_slice" -> <<114, 97, 119, 95, 109, 101, 116, 97, 95, 115, 108, 105, 99, 101>>
      [] name = "raw_struct" -> <<114, 97, 119, 95, 115, 116, 114, 117, 99, 116>>
      [] name = "raw_struct_slice" -> <<114, 97, 119, 95, 115, 116, 114, 117, 99, 116, 95, 115, 108, 105, 99, 101>>
      [] name = "socketaddress" -> <<115, 111, 99, 107, 101, 116, 97, 100, 100, 114, 101, 115, 115>>
      [] name = "socketaddressc" -> <<115, 111, 99, 107, 101, 116, 97, 100, 100, 114, 101, 115, 115, 99>>
      [] name = "str16" -> <<115, 116, 114, 49, 54>>
      [] name = "str16_json" -> <<115, 116, 114, 49, 54, 95, 106, 115, 111, 110>>
      [] name = "str16_xml" -> <<115, 116, 114, 49, 54, 95, 120, 109, 108>>
      [] name = "str8" -> <<115, 116, 114, 56>>
      [] name = "str8_cp1252" -> <<115, 116, 114, 56, 95, 99, 112, 49, 50, 53, 50>>
      [] name = "str8_json" -> <<115, 116, 114, 56, 95, 106, 115, 111, 110>>
      [] name = "str8_xml" -> <<115, 116, 114, 56, 95, 120, 109, 108>>
      [] name = "struct" -> <<115, 116, 114, 117, 99, 116>>
      [] name = "systemtime" -> <<115, 121, 115, 116, 101, 109, 116, 105, 109, 101>>
      [] name = "tid" -> <<116, 105, 100>>
      [] name = "tid_slice" -> <<116, 105, 100, 95, 115, 108, 105, 99, 101>>
      [] name = "time32" -> <<116, 105, 109, 101, 51, 50>>
      [] name = "time64" -> <<116, 105, 109, 101, 54, 52>>
      [] name = "u16" -> <<117, 49, 54>>
      [] name = "u16_hex" -> <<117, 49, 54, 95, 104, 101, 120>>
      [] name = "u16_hex_slice" -> <<117, 49, 54, 95, 104, 101, 120, 95, 115, 108, 105, 99, 101>>
      [] name = "u16_slice" -> <<117, 49, 54, 95, 115, 108, 105, 99, 101>>
      [] name = "u32" -> <<117, 51, 50>>
      [] name = "u32_hex" -> <<117, 51, 50, 95, 104, 101, 120>>
      [] name = "u32_hex_slice" -> <<117, 51, 50, 95, 104, 101, 120, 95, 115, 108, 105, 99, 101>>
      [] name = "u32_slice" -> <<117, 51, 50, 95, 115, 108, 105, 99, 101>>
      [] name = "u64" -> <<117, 54, 52>>
      [] name = "u64_hex" -> <<117, 54, 52, 95, 104, 101, 120>>
      [] name = "u64_hex_slice" -> <<117, 54, 52, 95, 104, 101, 120, 95, 115, 108, 105, 99, 101>>
      [] name = "u64_slice" -> <<117, 54, 52, 95, 115, 108, 105, 99, 101>>
      [] name = "u8" -> <<117, 56>>
      [] name = "u8_hex" -> <<117, 56, 95, 104, 101, 120>>
      [] name = "u8_hex_slice" -> <<117, 56, 95, 104, 101, 120, 95, 115, 108, 105, 99, 101>>
      [] name = "u8_slice" -> <<117, 56, 95, 115, 108, 105, 99, 101>>
      [] name = "usize" -> <<117, 115, 105, 122, 101>>
      [] name = "usize_hex" -> <<117, 115, 105, 122, 101, 95, 104, 101, 120>>
      [] name = "usize_hex_slice" -> <<117, 115, 105, 122, 101, 95, 104, 101, 120, 95, 115, 108, 105, 99, 101>>
      [] name = "usize_slice" -> <<117, 115, 105, 122, 101, 95, 115, 108, 105, 99, 101>>
      [] name = "win_error" -> <<119, 105, 110, 95, 101, 114, 114, 111, 114>>
      [] name = "win_error_slice" -> <<119, 105, 110, 95, 101, 114, 114, 111, 114, 95, 115, 108, 105, 99, 101>>
      [] name = "win_filetime" -> <<119, 105, 110, 95, 102, 105, 108, 101, 116, 105, 109, 101>>
      [] name = "win_filetime_slice" -> <<119, 105, 110, 95, 102, 105, 108, 101, 116, 105, 109, 101, 95, 115, 108, 105, 99, 101>>
      [] name = "win_ntstatus" -> <<119, 105, 110, 95, 110, 116, 115, 116, 97, 116, 117, 115>>
      [] name = "win_ntstatus_slice" -> <<119, 105, 110, 95, 110, 116, 115, 116, 97, 116, 117, 115, 95, 115, 108, 105, 99, 101>>
      [] name = "win_sid" -> <<119, 105, 110, 95, 115, 105, 100>>
      [] name = "win_systemtime" -> <<119, 105, 110, 95, 115, 121, 115, 116, 101, 109, 116, 105, 109, 101>>
      [] name = "win_systemtime_slice" -> <<119, 105, 110, 95, 115, 121, 115, 116, 101, 109, 116, 105, 109, 101, 95, 115, 108, 105, 99, 101>>
      [] name = "win_systemtime_utc" -> <<119, 105, 110, 95, 115, 121, 115, 116, 101, 109, 116, 105, 109, 101, 95, 117, 116, 99>>
      [] name = "win_systemtime_utc_slice" -> <<119, 105, 110, 95, 115, 121, 115, 116, 101, 109, 116, 105, 109, 101, 95, 117, 116, 99, 95, 115, 108, 105, 99, 101>>
      [] name = "ProviderMetadata" -> <<80, 114, 111, 118, 105, 100, 101, 114, 77, 101, 116, 97, 100, 97, 116, 97>>
      [] name = "TraceClassic" -> <<84, 114, 97, 99, 101, 67, 108, 97, 115, 115, 105, 99>>
      [] name = "TraceLogging" -> <<84, 114, 97, 99, 101, 76, 111, 103, 103, 105, 110, 103>>
      [] name = "Critical" -> <<67, 114, 105, 116, 105, 99, 97, 108>>
      [] name = "Error" -> <<69, 114, 114, 111, 114>>
      [] name = "Informational" -> <<73, 110, 102, 111, 114, 109, 97, 116, 105, 111, 110, 97, 108>>
      [] name = "LogAlways" -> <<76, 111, 103, 65, 108, 119, 97, 121, 115>>
      [] name = "Verbose" -> <<86, 101, 114, 98, 111, 115, 101>>
      [] name = "Warning" -> <<87, 97, 114, 110, 105, 110, 103>>
      [] name = "DC_Start" -> <<68, 67, 95, 83, 116, 97, 114, 116>>
      [] name = "DC_Stop" -> <<68, 67, 95, 83, 116, 111, 112>>
      [] name = "Extension" -> <<69, 120, 116, 101, 110, 115, 105, 111, 110>>
      [] name = "Info" -> <<73, 110, 102, 111>>
      [] name = "Receive" -> <<82, 101, 99, 101, 105, 118, 101>>
      [] name = "Reply" -> <<82, 101, 112, 108, 121>>
      [] name = "Resume" -> <<82, 101, 115, 117, 109, 101>>
      [] name = "Send" -> <<83, 101, 110, 100>>
      [] name = "Start" -> <<83, 116, 97, 114, 116>>
      [] name = "Stop" -> <<83, 116, 111, 112>>
      [] name = "Suspend" -> <<83, 117, 115, 112, 101, 110, 100>>
      [] name = "Binary" -> <<66, 105, 110, 97, 114, 121>>
      [] name = "Bool32" -> <<66, 111, 111, 108, 51, 50>>
      [] name = "CStr16" -> <<67, 83, 116, 114, 49, 54>>
      [] name = "CStr8" -> <<67, 83, 116, 114, 56>>
      [] name = "CountedBinary" -> <<67, 111, 117, 110, 116, 101, 100, 66, 105, 110, 97, 114, 121>>
      [] name = "F32" -> <<70, 51, 50>>
      [] name = "F64" -> <<70, 54, 52>>
      [] name = "FileTime" -> <<70, 105, 108, 101, 84, 105, 109, 101>>
      [] name = "Guid" -> <<71, 117, 105, 100>>
      [] name = "Hex32" -> <<72, 101, 120, 51, 50>>
      [] name = "Hex64" -> <<72, 101, 120, 54, 52>>
      [] name = "HexSize" -> <<72, 101, 120, 83, 105, 122, 101>>
      [] name = "I16" -> <<73, 49, 54>>
      [] name = "I32" -> <<73, 51, 50>>
      [] name = "I64" -> <<73, 54, 52>>
      [] name = "I8" -> <<73, 56>>
      [] name = "ISize" -> <<73, 83, 105, 122, 101>>
      [] name = "Invalid" -> <<73, 110, 118, 97, 108, 105, 100>>
      [] name = "Sid" -> <<83, 105, 100>>
      [] name = "Str16" -> <<83, 116, 114, 49, 54>>
      [] name = "Str8" -> <<83, 116, 114, 56>>
      [] name = "Struct" -> <<83, 116, 114, 117, 99, 116>>
      [] name = "SystemTime" -> <<83, 121, 115, 116, 101, 109, 84, 105, 109, 101>>
      [] name = "U16" -> <<85, 49, 54>>
      [] name = "U32" -> <<85, 51, 50>>
      [] name = "U64" -> <<85, 54, 52>>
      [] name = "U8" -> <<85, 56>>
      [] name = "USize" -> <<85, 83, 105, 122, 101>>
      [] name = "Boolean" -> <<66, 111, 111, 108, 101, 97, 110>>
      [] name = "CodePointer" -> <<67, 111, 100, 101, 80, 111, 105, 110, 116, 101, 114>>
      [] name = "DateTime" -> <<68, 97, 116, 101, 84, 105, 109, 101>>
      [] name = "DateTimeCultureInsensitive" -> <<68, 97, 116, 101, 84, 105, 109, 101, 67, 117, 108, 116, 117, 114, 101, 73, 110, 115, 101, 110, 115, 105, 116, 105, 118, 101>>
      [] name = "DateTimeUtc" -> <<68, 97, 116, 101, 84, 105, 109, 101, 85, 116, 99>>
      [] name = "Default" -> <<68, 101, 102, 97, 117, 108, 116>>
      [] name = "HResult" -> <<72, 82, 101, 115, 117, 108, 116>>
      [] name = "Hex" -> <<72, 101, 120>>
      [] name = "IPv4" -> <<73, 80, 118, 52>>
      [] name = "IPv6" -> <<73, 80, 118, 54>>
      [] name = "Json" -> <<74, 115, 111, 110>>
      [] name = "NoPrint" -> <<78, 111, 80, 114, 105, 110, 116>>
      [] name = "NtStatus" -> <<78, 116, 83, 116, 97, 116, 117, 115>>
      [] name = "Pid" -> <<80, 105, 100>>
      [] name = "Pkcs7WithTypeInfo" -> <<80, 107, 99, 115, 55, 87, 105, 116, 104, 84, 121, 112, 101, 73, 110, 102, 111>>
      [] name = "Port" -> <<80, 111, 114, 116>>
      [] name = "Signed" -> <<83, 105, 103, 110, 101, 100>>
      [] name = "SocketAddress" -> <<83, 111, 99, 107, 101, 116, 65, 100, 100, 114, 101, 115, 115>>
      [] name = "String" -> <<83, 116, 114, 105, 110, 103>>
      [] name = "Tid" -> <<84, 105, 100>>
      [] name = "Unsigned" -> <<85, 110, 115, 105, 103, 110, 101, 100>>
      [] name = "Utf8" -> <<85, 116, 102, 56>>
      [] name = "Win32Error" -> <<87, 105, 110, 51, 50, 69, 114, 114, 111, 114>>
      [] name = "Xml" -> <<88, 109, 108>>
      [] name = "" -> <<>>
      [] name = "a" -> <<97>>
      [] name = "bogus" -> <<98, 111, 103, 117, 115>>
      [] name = "debug" -> <<100, 101, 98, 117, 103>>
      [] name = "u32x" -> <<117, 51, 50, 120>>
      [] name = "U" -> <<85>>
      [] name = "xml" -> <<120, 109, 108>>
      [] name = "zzz" -> <<122, 122, 122>>
      [] name = "Hex3" -> <<72, 101, 120, 51>>
      [] name = "bool" -> <<98, 111, 111, 108>>
      [] name = "DC_" -> <<68, 67, 95>>
      [] name = "tag" -> <<116, 97, 103>>
      [] name = "u" -> <<117>>
      [] name = "Xml_" -> <<88, 109, 108, 95>>

\* str::cmp: the order of the bytes, a proper prefix being less
cmp(a, b) ==
    LET x == NameBytes(a)
        y == NameBytes(b)
        n == IF Len(x) < Len(y) THEN Len(x) ELSE Len(y)
        diff == {i \in 1..n : x[i] # y[i]}
        first == CHOOSE i \in diff : \A j \in diff : i <= j
    IN IF diff # {}
       THEN (IF x[first] < y[first] THEN "Less" ELSE "Greater")
       ELSE IF Len(x) < Len(y) THEN "Less"
       ELSE IF Len(x) > Len(y) THEN "Greater"
       ELSE "Equal"

\* the names of the tables that are searched
LookupTables ==
    {"FIELD_OPTIONS", "CHANNEL_ENUMS", "LEVEL_ENUMS", "OPCODE_ENUMS",
     "INTYPE_ENUMS", "OUTTYPE_ENUMS"}

\* the keys of a table, in the order of the table
TableNames(table) ==
    CASE table = "FIELD_OPTIONS" ->
             [i \in 1..Len(FIELD_OPTIONS) |-> FIELD_OPTIONS[i].option_name]
      [] table = "CHANNEL_ENUMS" -> CHANNEL_ENUMS
      [] table = "LEVEL_ENUMS" -> LEVEL_ENUMS
      [] table = "OPCODE_ENUMS" -> OPCODE_ENUMS
      [] table = "INTYPE_ENUMS" -> INTYPE_ENUMS
      [] table = "OUTTYPE_ENUMS" -> OUTTYPE_ENUMS

\* every name that is looked up
LookupKeys ==
    LookupProbes
    \cup UNION {{TableNames(t)[i] : i \in 1..Len(TableNames(t))} : t \in LookupTables}

\* The lookups of the parser, step by step.  input is [table, key]; stack
\* holds the bounds of the search, counted from 0 as slice::binary_search_by
\* counts them: left, right and size = right - left.
LookupInit ==
    /\ input \in [table : LookupTables, key : LookupKeys]
    /\ pc = "search"
    /\ stack = <<[left |-> 0, right |-> Len(TableNames(input.table)),
                 size |-> Len(TableNames(input.table))]>>
    /\ event = EventInfo0(Str("", 0))
    /\ errors = <<>>
    /\ result = Err(<<>>)
    /\ generator = NewGenerator
    /\ output = <<>>
    /\ provider = [prov |-> ProviderInfo0(Str("", 0)), root_parser |-> <<>>,
                   prov_id_set |-> FALSE, group_name_set |-> FALSE]
    /\ run = NotRun

\* the entry that the search compares next, counted from 0
Mid == stack[1].left + stack[1].size \div 2

\* the search goes on and the comparison of the middle entry with the key
\* gives ord
Probing(ord) ==
    /\ pc = "search"
    /\ stack[1].left < stack[1].right
    /\ cmp(TableNames(input.table)[Mid + 1], input.key) = ord

\* the middle entry is less than the key: the search goes on to its right
SearchRight ==
    /\ Probing("Less")
    /\ stack' = <<[left |-> Mid + 1, right |-> stack[1].right,
                  size |-> stack[1].right - (Mid + 1)]>>
    /\ UNCHANGED <<input, event, errors, pc, result, generator, output, provider, run>>

\* the middle entry is greater than the key: the search goes on to its left
SearchLeft ==
    /\ Probing("Greater")
    /\ stack' = <<[left |-> stack[1].left, right |-> Mid,
                  size |-> Mid - stack[1].left]>>
    /\ UNCHANGED <<input, event, errors, pc, result, generator, output, provider, run>>

\* the middle entry is the key: Ok(mid)
SearchFound ==
    /\ Probing("Equal")
    /\ pc' = "found"
    /\ result' = [ok |-> TRUE, errs |-> <<>>, index |-> Mid]
    /\ UNCHANGED <<input, event, errors, stack, generator, output, provider, run>>

\* nothing is left to search: Err(left)
SearchMissing ==
    /\ pc = "search"
    /\ stack[1].left >= stack[1].right
    /\ pc' = "missing"
    /\ result' = [ok |-> FALSE, errs |-> <<>>, index |-> stack[1].left]
    /\ UNCHANGED <<input, event, errors, stack, generator, output, provider, run>>

LookupNext == SearchRight \/ SearchLeft \/ SearchFound \/ SearchMissing

LookupSpec == LookupInit /\ [][LookupNext]_vars

\* names is strictly sorted: each entry is less than the next
StrictlySorted(names) ==
    \A i \in 2..Len(names) : cmp(names[i - 1], names[i]) = "Less"

\* C23: the table that is searched (FIELD_OPTIONS by option name,
\* CHANNEL_ENUMS, LEVEL_ENUMS, OPCODE_ENUMS, INTYPE_ENUMS, OUTTYPE_ENUMS) is
\* strictly sorted, so its names are distinct, and the binary search ends
\* with an entry exactly when the name is in the table: that entry holds the
\* name, and it is the one that the lookups of the parser are taken to find.
C23_SortedTablesLookup ==
    LET names == TableNames(input.table) IN
    /\ StrictlySorted(names)
    /\ \A i, j \in 1..Len(names) : names[i] = names[j] => i = j
    /\ pc = "found" =>
          /\ names[result.index + 1] = input.key
          /\ binary_search(names, input.key) = result.index + 1
          /\ input.table = "FIELD_OPTIONS" =>
                binary_search_by(FIELD_OPTIONS, input.key) = result.index + 1
    /\ pc = "missing" =>
          /\ \A i \in 1..Len(names) : names[i] # input.key
          /\ binary_search(names, input.key) = 0

\* the search of FIELD_OPTIONS found its last entry after several steps
C23_LastOptionFound ==
    /\ pc = "found"
    /\ input = [table |-> "FIELD_OPTIONS", key |-> "win_systemtime_utc_slice"]
    /\ result.index = Len(FIELD_OPTIONS) - 1
    /\ stack[1].left > 0

\* ----------------------------------------------------------------- C24
\* the positions of the events of kind e in the evaluation
At(e) == {p \in 1..Len(run.trace) : run.trace[p].e = e}

\* every position of P is before every position of Q
Before(P, Q) == \A p \in P : \A q \in Q : p < q

\* the layout that is evaluated
Evaluated == output[1].enabled_tree[1]

\* C24: in an evaluation of the emitted block with the provider enabled, the
\* operands of the call of _tlg_write are evaluated, all of them and in the
\* order of the fields they are bound to, before _tlg_write is entered;
\* inside it every slot of _tlg_lengths is computed, from an operand that
\* was evaluated, before any descriptor is constructed, so before every
\* descriptor that refers to the slot; the whole descriptor array is
\* constructed before the transport is called, which happens once; and the
\* operands are dropped only after the transport has returned.
C24_EmissionOrder ==
    pc \in {"entered", "ready", "returned"} =>
        LET T == run.trace IN
        /\ Cardinality(At("arg")) = Len(Evaluated.func_call_tree)
        /\ Cardinality(At("enter")) = 1
        /\ Before(At("arg"), At("enter"))
        /\ \A p \in At("arg") : \A q \in At("arg") :
              (p < q /\ T[q].arg # NoRef) => T[p].arg < T[q].arg
        /\ Before(At("enter"), At("length") \cup At("desc") \cup At("transport"))
        /\ Before(At("length"), At("desc"))
        /\ \A q \in At("length") : \E p \in At("arg") : T[p].arg = T[q].arg
        /\ \A q \in At("desc") :
              /\ T[q].idx # NoRef => \E p \in At("length") : p < q /\ T[p].n = T[q].idx
              /\ T[q].arg # NoRef => \E p \in At("arg") : p < q /\ T[p].arg = T[q].arg
        /\ pc \in {"ready", "returned"} =>
              /\ Cardinality(At("length")) = Evaluated.lengths_count
              /\ Cardinality(At("desc")) = Len(Evaluated.data_desc_init_tree)
        /\ pc = "returned" =>
              /\ Cardinality(At("transport")) = 1
              /\ Before(At("desc"), At("transport"))
              /\ Before(At("transport"), At("return"))
              /\ Before(At("return"), At("drop"))
              /\ Cardinality(At("drop")) = 1

\* an evaluation returned in which two length slots were computed and a
\* descriptor refers to the second of them
C24_TwoSlotsThenTransport ==
    /\ pc = "returned"
    /\ Cardinality(At("length")) = 2
    /\ \E q \in At("desc") : run.trace[q].idx = 1
    /\ Cardinality(At("arg")) > 5 + 2

\* ----------------------------------------------------------------- C25
\* C25: a second call of generate on the same generator returns what a new
\* generator returns for the event: nothing of the first call (metadata
\* chunks, tag constants, parameters, call arguments, length initializers,
\* descriptors) is in the output of the second.  The code violates it: the
\* parameters, the call arguments, the length initializers and the
\* descriptors of the first call are never cleared.
C25_SecondGenerateIsFresh ==
    pc = "regenerated" =>
        /\ output[2] = generate(NewGenerator, event).out
        /\ output[2] = output[1]

\* generate ran twice on one generator: the metadata and the tags of the
\* second output are those of the first, its parameters, call arguments and
\* descriptors are those of the first twice over
C25_FirstEventLeaks ==
    /\ pc = "regenerated"
    /\ output[2].enabled_tree[1].meta_tree = output[1].enabled_tree[1].meta_tree
    /\ output[2].enabled_tree[1].tags_tree = output[1].enabled_tree[1].tags_tree
    /\ output[2].enabled_tree[1].func_args_tree
         = output[1].enabled_tree[1].func_args_tree
           \o output[1].enabled_tree[1].func_args_tree
    /\ output[2].enabled_tree[1].func_call_tree
         = output[1].enabled_tree[1].func_call_tree
           \o output[1].enabled_tree[1].func_call_tree
    /\ output[2].enabled_tree[1].data_desc_init_tree
         = output[1].enabled_tree[1].data_desc_init_tree
           \o output[1].enabled_tree[1].data_desc_init_tree
    /\ Len(output[2].enabled_tree[1].lengths_init_tree) = 2
    /\ output[2].enabled_tree[1].lengths_count = 1
    /\ Len(output[2].enabled_tree) = 1

\* ----------------------------------------------------------------- C26
\* the strategies without data: the nested group, the raw groups and the
\* raw metadata
NoDataStrategies ==
    {"Struct", "RawStruct", "RawStructSlice", "RawMeta", "RawMetaSlice"}

\* the positions in the field list of the fields that carry data
DataFields ==
    Selected([i \in 1..Len(event.fields) |->
                 Strategy(event.fields[i]) \notin NoDataStrategies],
             1, Len(event.fields))

\* the N of the _tlg_argN that the descriptors refer to, in their order and
\* without repetition
DescArgs(descs) ==
    LET at == Selected([k \in 1..Len(descs) |->
                           /\ descs[k].arg # NoRef
                           /\ \A m \in 1..(k - 1) : descs[m].arg # descs[k].arg],
                       1, Len(descs))
    IN [j \in 1..Len(at) |-> descs[at[j]].arg]

\* C26: in an emitted layout the parameters of _tlg_write and the arguments
\* of its call are the 5 fixed ones (provider, metadata, descriptor,
\* activity id, related id) followed by one for each field that carries
\* data, in declaration order, parameter and argument of the same shape and
\* type, the parameter named _tlg_argN with N the index of the field in the
\* field list and the argument made from the value of that field; a field of
\* a strategy without data has no parameter, no argument and no descriptor;
\* and the descriptors that refer to a parameter refer, in order, to the
\* parameters of the fields that carry data.
C26_BindingPlan ==
    pc = "generated" =>
        LET params == Layout.func_args_tree
            args == Layout.func_call_tree
        IN /\ Len(params) = 5 + Len(DataFields)
           /\ Len(args) = Len(params)
           /\ SubSeq(params, 1, 5) = FixedArgs
           /\ \A i \in 1..5 : args[i].shape = "fixed" /\ args[i].ty = params[i].ty
           /\ args[1].name = event.provider_symbol
           /\ args[4].value = event.activity_id
           /\ args[5].value = event.related_id
           /\ \A j \in 1..Len(DataFields) :
                 /\ params[5 + j].name = "_tlg_arg"
                 /\ params[5 + j].n = DataFields[j] - 1
                 /\ args[5 + j].n = DataFields[j] - 1
                 /\ args[5 + j].value = event.fields[DataFields[j]].value_tokens
                 /\ args[5 + j].shape = params[5 + j].shape
                 /\ args[5 + j].ty = params[5 + j].ty
                 /\ params[5 + j].ty = event.fields[DataFields[j]].option.value_type
           /\ DescArgs(Layout.data_desc_init_tree)
                = [j \in 1..Len(DataFields) |-> DataFields[j] - 1]
           /\ \A k \in 1..Len(Layout.lengths_init_tree) :
                 \E j \in 1..Len(DataFields) :
                    Layout.lengths_init_tree[k].arg = DataFields[j] - 1

\* a layout was emitted for a nested group, a raw group and fields with
\* data: the first parameter of a field is not _tlg_arg0
C26_GroupsBindNothing ==
    /\ pc = "generated"
    /\ "Struct" \in Strategies
    /\ "RawStruct" \in Strategies
    /\ Len(DataFields) >= 1
    /\ Layout.func_args_tree[6].n > 0

\* ----------------------------------------------------------------- C27
\* the tag of the event and of every tagged field encodes to 4 bytes
AllTagsFourBytes ==
    /\ tag_size(event.tag.n) = 4
    /\ \A i \in 1..Len(event.fields) :
          is_some(event.fields[i].tag) => tag_size(event.fields[i].tag.n) = 4

\* no struct of the event is empty
NoEmptyStruct ==
    \A i \in 1..Len(event.fields) :
        Strategy(event.fields[i]) = "Struct"
            => event.fields[i].outtype_or_field_count_int # 0

\* C27: the estimate of the parser for an event that was generated is never
\* smaller than the size of the metadata that the generator emits for it,
\* and is that size when every tag encodes to 4 bytes and no struct is
\* empty.  The code violates it: the estimate leaves out the out-type byte
\* of a field with format(...).
C27_EstimateCoversMetadata ==
    pc = "generated" =>
        /\ event.estimated_metadata_bytes_used >= MetaSize(Layout)
        /\ (AllTagsFourBytes /\ NoEmptyStruct)
              => event.estimated_metadata_bytes_used = MetaSize(Layout)

\* a layout was emitted whose metadata is larger than the estimate, by one
\* byte for each field with a format, and still fits the size element
C27_EstimateTooSmall ==
    /\ pc = "generated"
    /\ AllTagsFourBytes
    /\ NoEmptyStruct
    /\ MetaSize(Layout) <= METADATA_BYTES_MAX
    /\ MetaSize(Layout)
         = event.estimated_metadata_bytes_used
           + Cardinality({i \in 1..Len(event.fields) :
                            /\ is_some(event.fields[i].outtype_or_field_count_expr)
                            /\ ~is_some(event.fields[i].tag)})
    /\ MetaSize(Layout) > event.estimated_metadata_bytes_used

\* ----------------------------------------------------------------- C28
\* the counters and their diagnostics in the current state
CountersInRange ==
    /\ \/ event.estimated_metadata_bytes_used = 0
       \/ /\ event.estimated_metadata_bytes_used >= 6
          /\ event.estimated_metadata_bytes_used <= METADATA_BYTES_MAX
    /\ \/ event.data_desc_used = 0
       \/ /\ event.data_desc_used >= 2
          /\ event.data_desc_used <= DATA_DESC_MAX
    /\ Count(errors, MsgMetadata) =
           IF event.estimated_metadata_bytes_used = 0 THEN 1 ELSE 0
    /\ Count(errors, MsgBlocks) = IF event.data_desc_used = 0 THEN 1 ELSE 0

\* the states of an event whose parse has begun: the name is counted
ParseBegun ==
    pc \in {"options", "finish", "done", "generated", "regenerated",
            "skipped", "entered", "ready", "returned"}

\* the least that the estimate has been asked to count so far: the 6 bytes
\* reserved, the name of the event with its NUL, and for every field pushed
\* its estimate (a nested group was counted with 2 type bytes when it was
\* pushed, whatever the number of its fields turns out to be)
Estimated ==
    6 + (IF ParseBegun THEN StrLen(event.name) + 1 ELSE 0)
      + SumRange([i \in 1..Len(event.fields) |->
                     FieldMetadataEstimate(event.fields[i])],
                 1, Len(event.fields))

\* C28: in every state of the parse the metadata estimate is 0 or in
\* 6..65535 and the block counter is 0 or in 2..128; a counter is 0 exactly
\* when its diagnostic has been recorded, which then is recorded once (the
\* diagnostics are only ever appended to, so a counter that is 0 is 0 in
\* every later state of the parse); a counter that is not 0 has not
\* wrapped: the estimate is at least what it was asked to count, and the
\* block counter is the blocks of the fields pushed, which is beyond the
\* limit exactly when the counter is 0.
C28_StickyCounters ==
    /\ CountersInRange
    /\ event.estimated_metadata_bytes_used # 0
           => event.estimated_metadata_bytes_used >= Estimated
    /\ event.data_desc_used =
           IF Blocks(event.fields) > DATA_DESC_MAX
           THEN 0 ELSE Blocks(event.fields)

\* C28, the case: the estimate was frozen before the last field was pushed,
\* the block counter goes on counting, and the parse has ended with the one
\* diagnostic.
C28_FrozenThenPushed ==
    /\ pc = "done"
    /\ Len(event.fields) >= 2
    /\ 6 + StrLen(event.name) + 1 + FieldMetadataEstimate(event.fields[1])
           > METADATA_BYTES_MAX
    /\ event.estimated_metadata_bytes_used = 0
    /\ event.data_desc_used > 2
    /\ Count(errors, MsgMetadata) = 1

\* ----------------------------------------------------------------- C29
\* the parser is inside the braces of a struct and the next option has the
\* name given
NestedOption(names) ==
    /\ pc = "options"
    /\ Top(Cur).in_struct
    /\ Len(Top(Cur).toks) >= 2
    /\ Top(Cur).toks[1].t = "ident"
    /\ Top(Cur).toks[1].s \in names
    /\ Top(Cur).toks[2].t \in {"paren", "brace"}

\* the next option is a raw group that has its name literal
NestedRawStruct ==
    /\ NestedOption({"raw_struct", "raw_struct_slice"})
    /\ Top(Cur).toks[2].c # <<>>
    /\ Top(Cur).toks[2].c[1].t = "lit"

\* what the step of the parser does with such an option
NestedStep ==
    /\ NestedOption(EventOptionNames) =>
           /\ errors' = Append(errors, MsgUnrecognized)
           /\ event' = event
    /\ NestedRawStruct =>
           Count(errors', MsgRawStruct) = Count(errors, MsgRawStruct) + 1

Running == pc \in {"skipped", "entered", "ready", "returned"}

\* C30: the emitted block asks the provider first, with the level of the
\* event and the constants of its keywords; when the provider is not
\* enabled the value of the block is 0, no operand of _tlg_write is
\* evaluated, _tlg_write is not entered and the transport is not called;
\* when it is enabled and the evaluation has returned, the transport was
\* called exactly once, after the provider was asked, and the value of the
\* block is the status that the transport returned.
C30_EnabledGate ==
    /\ Running =>
           /\ run.trace[1].e = "enabled"
           /\ Cardinality(At("enabled")) = 1
           /\ output[Len(output)].level = event.level
           /\ output[Len(output)].keywords = KeywordConsts(event.keywords)
           /\ output[Len(output)].provider = event.provider_symbol
    /\ pc = "skipped" =>
           /\ run.trace[1].n = 0
           /\ run.value = 0
           /\ At("arg") = {}
           /\ At("enter") = {}
           /\ At("length") = {}
           /\ At("desc") = {}
           /\ At("transport") = {}
    /\ pc = "returned" =>
           /\ run.trace[1].n = 1
           /\ Cardinality(At("transport")) = 1
           /\ Cardinality(At("return")) = 1
           /\ Before(At("transport"), At("return"))
           /\ \A p \in At("return") : run.value = run.trace[p].n

\* C30, the case: an event with a field value was evaluated with the
\* provider not enabled; its value is 0 and nothing but the question to the
\* provider has happened.
C30_SkippedWithFields ==
    /\ pc = "skipped"
    /\ \E i \in 1..Len(Evaluated.func_call_tree) :
           Evaluated.func_call_tree[i].shape # "fixed"
    /\ run = [trace |-> <<Ev("enabled", 0, NoRef, NoRef)>>, value |-> 0]
====
